---- MODULE Spec2Model ----
(***************************************************************************)
(* Market-demand aggregation (analyzer/data_processor.py) and insight      *)
(* generation (analyzer/ai_processor.py) of the airline booking analyzer,  *)
(* with the stores they read and write (analyzer/models.py) and the        *)
(* scraper that fills them (analyzer/scraper.py).                          *)
(*                                                                         *)
(* Money is held in cents: a Decimal(10,2) column value 223.30 is the      *)
(* integer 22330.  The Python code converts every price to a binary64      *)
(* float before it computes with it, so the arithmetic below is binary64   *)
(* arithmetic: a float is a sign, a 53-bit significand and an exponent,    *)
(* and every operation rounds its exact result to nearest, ties to even.   *)
(***************************************************************************)
EXTENDS Integers, Sequences, FiniteSets, TLC

(***************************************************************************)
(* Naturals below 2^120: tuples of Limbs digits in base Base, least        *)
(* significant first.                                                      *)
(***************************************************************************)
Base == 32768

DigitBits == 15

Limbs == 8

Pow2 == <<1, 2, 4, 8, 16, 32, 64, 128, 256, 512, 1024, 2048, 4096, 8192, 16384, 32768>>

Max2(x, y) == IF x >= y THEN x ELSE y

Min2(x, y) == IF x <= y THEN x ELSE y

NZero == <<0, 0, 0, 0, 0, 0, 0, 0>>

NOne == <<1, 0, 0, 0, 0, 0, 0, 0>>

\* a natural below 2^31
NFromInt(n) ==
    <<n % Base, (n \div Base) % Base, n \div (Base * Base), 0, 0, 0, 0, 0>>

\* the value of a, for a < 2^31
NVal(a) == a[1] + Base * a[2] + Base * Base * a[3]

NAdd(a, b) ==
    LET carry[i \in 0..Limbs] ==
            IF i = 0 THEN 0 ELSE (a[i] + b[i] + carry[i - 1]) \div Base
        d(i) == (a[i] + b[i] + carry[i - 1]) % Base
    IN  <<d(1), d(2), d(3), d(4), d(5), d(6), d(7), d(8)>>

\* a - b, for a >= b
NSub(a, b) ==
    LET borrow[i \in 0..Limbs] ==
            IF i = 0 THEN 0
            ELSE IF a[i] - b[i] - borrow[i - 1] < 0 THEN 1 ELSE 0
        d(i) == (a[i] - b[i] - borrow[i - 1]) % Base
    IN  <<d(1), d(2), d(3), d(4), d(5), d(6), d(7), d(8)>>

\* a * k, for a digit k
NMulSmall(a, k) ==
    LET carry[i \in 0..Limbs] ==
            IF i = 0 THEN 0 ELSE (a[i] * k + carry[i - 1]) \div Base
        d(i) == (a[i] * k + carry[i - 1]) % Base
    IN  <<d(1), d(2), d(3), d(4), d(5), d(6), d(7), d(8)>>

\* -1, 0 or 1 as a < b, a = b or a > b
NCmp(a, b) ==
    LET D == {i \in 1..Limbs : a[i] # b[i]}
    IN  IF D = {} THEN 0
        ELSE LET k == CHOOSE i \in D : \A j \in D : j <= i
             IN  IF a[k] > b[k] THEN 1 ELSE -1

\* a * Base^n
NShlLimbs(a, n) ==
    LET d(i) == IF i - n >= 1 THEN a[i - n] ELSE 0
    IN  <<d(1), d(2), d(3), d(4), d(5), d(6), d(7), d(8)>>

\* a \div Base^n
NShrLimbs(a, n) ==
    LET d(i) == IF i + n <= Limbs THEN a[i + n] ELSE 0
    IN  <<d(1), d(2), d(3), d(4), d(5), d(6), d(7), d(8)>>

\* x * 2^j, for j < DigitBits
NShlBits(x, j) ==
    LET d(i) == (x[i] % Pow2[DigitBits - j + 1]) * Pow2[j + 1]
                + (IF i > 1 THEN x[i - 1] \div Pow2[DigitBits - j + 1] ELSE 0)
    IN  <<d(1), d(2), d(3), d(4), d(5), d(6), d(7), d(8)>>

\* x \div 2^j, for j < DigitBits
NShrBits(x, j) ==
    LET d(i) == (x[i] \div Pow2[j + 1])
                + (IF i < Limbs THEN (x[i + 1] % Pow2[j + 1]) * Pow2[DigitBits - j + 1]
                   ELSE 0)
    IN  <<d(1), d(2), d(3), d(4), d(5), d(6), d(7), d(8)>>

\* a * 2^k
NShl(a, k) == NShlBits(NShlLimbs(a, k \div DigitBits), k % DigitBits)

\* a \div 2^k
NShr(a, k) == NShrBits(NShrLimbs(a, k \div DigitBits), k % DigitBits)

\* a * b, for a, b < 2^60
NMul(a, b) ==
    NAdd(NAdd(NMulSmall(a, b[1]), NShlLimbs(NMulSmall(a, b[2]), 1)),
         NAdd(NShlLimbs(NMulSmall(a, b[3]), 2), NShlLimbs(NMulSmall(a, b[4]), 3)))

\* the number of binary digits of a
NBitLen(a) ==
    LET D == {i \in 1..Limbs : a[i] # 0}
    IN  IF D = {} THEN 0
        ELSE LET k == CHOOSE i \in D : \A j \in D : j <= i
             IN  (k - 1) * DigitBits + Cardinality({j \in 1..DigitBits : Pow2[j] <= a[k]})

(***************************************************************************)
(* Division, one binary digit of the quotient a step: q is the quotient so *)
(* far, r what is left of the dividend, t the divisor times 2^k for the    *)
(* digit k that the step settles, n the number of steps to go.             *)
(***************************************************************************)
DivStep(st) ==
    IF NCmp(st.r, st.t) >= 0
    THEN [q |-> NAdd(NShlBits(st.q, 1), NOne), r |-> NSub(st.r, st.t),
          t |-> NShrBits(st.t, 1), n |-> st.n - 1]
    ELSE [q |-> NShlBits(st.q, 1), r |-> st.r, t |-> NShrBits(st.t, 1),
          n |-> st.n - 1]

RECURSIVE DivSteps(_)
DivSteps(st) == IF st.n = 0 THEN st ELSE DivSteps(DivStep(st))

MantBits == 53

\* the quotient q and the remainder r of a by b, for b <= a < b * 2^MantBits:
\* MantBits steps
NDivMod(a, b) ==
    DivSteps([q |-> NZero, r |-> a, t |-> NShl(b, MantBits - 1), n |-> MantBits])

(***************************************************************************)
(* binary64 floats.  [s, m, e] is s * m * 2^e with s in {-1, 0, 1} and,    *)
(* unless s = 0, m a natural of exactly MantBits binary digits.            *)
(***************************************************************************)
FZero == [s |-> 0, m |-> NZero, e |-> 0]

\* s * q * 2^e for a natural q of MantBits or MantBits + 1 binary digits
\* (then q = 2^MantBits)
FNormal(s, q, e) ==
    IF NBitLen(q) > MantBits
    THEN [s |-> s, m |-> NShrBits(q, 1), e |-> e + 1]
    ELSE [s |-> s, m |-> q, e |-> e]

\* q, or q + 1 when the remainder r of the division by B is above B / 2, or
\* is B / 2 and q is odd
RoundQuotient(q, r, B) ==
    IF NCmp(NShlBits(r, 1), B) > 0 \/ (NCmp(NShlBits(r, 1), B) = 0 /\ q[1] % 2 = 1)
    THEN NAdd(q, NOne)
    ELSE q

RoundDivided(s, d, B, e) == FNormal(s, RoundQuotient(d.q, d.r, B), e)

\* the float nearest to s * (A / B) * 2^e, for B <= A < B * 2^MantBits
RoundScaled(s, A, B, e) == RoundDivided(s, NDivMod(A, B), B, e)

\* the float nearest to s * (A / B) * 2^e, for B * 2^(MantBits - 1) <= A
\* < B * 2^(MantBits + 1)
RoundAligned(s, A, B, e) ==
    IF NCmp(A, NShl(B, MantBits)) >= 0
    THEN RoundScaled(s, A, NShlBits(B, 1), e + 1)
    ELSE RoundScaled(s, A, B, e)

\* the float nearest to s * (A / B) * 2^e for A of la and B of lb binary
\* digits
RoundLengths(s, A, B, e, la, lb) ==
    RoundAligned(s, NShl(A, Max2(0, lb + MantBits - la)),
                 NShl(B, Max2(0, la - lb - MantBits)),
                 e - Max2(0, lb + MantBits - la) + Max2(0, la - lb - MantBits))

\* the float nearest to s * (A / B) * 2^e (A, B > 0), ties to even
RoundRatio(s, A, B, e) == RoundLengths(s, A, B, e, NBitLen(A), NBitLen(B))

\* float(n) for an integer n
FFromInt(n) ==
    IF n = 0 THEN FZero
    ELSE RoundRatio(IF n > 0 THEN 1 ELSE -1, NFromInt(IF n > 0 THEN n ELSE -n), NOne, 0)

\* the float nearest to a / b, for integers a and b > 0: a decimal literal,
\* float(Decimal)
FFromRatio(a, b) ==
    IF a = 0 THEN FZero
    ELSE RoundRatio(IF a > 0 THEN 1 ELSE -1, NFromInt(IF a > 0 THEN a ELSE -a),
                    NFromInt(b), 0)

FNeg(x) == [s |-> -x.s, m |-> x.m, e |-> x.e]

\* sx * X * 2^e + sy * Y * 2^e, rounded
FAddAligned(sx, X, sy, Y, e) ==
    IF sx # sy /\ NCmp(X, Y) = 0 THEN FZero
    ELSE RoundRatio(IF sx = sy \/ NCmp(X, Y) > 0 THEN sx ELSE sy,
                    IF sx = sy THEN NAdd(X, Y)
                    ELSE IF NCmp(X, Y) > 0 THEN NSub(X, Y) ELSE NSub(Y, X),
                    NOne, e)

\* x + y; an operand 2^60 times smaller than the other does not change it
FAdd(x, y) ==
    IF x.s = 0 THEN y
    ELSE IF y.s = 0 THEN x
    ELSE IF x.e - y.e > 60 THEN x
    ELSE IF y.e - x.e > 60 THEN y
    ELSE FAddAligned(x.s, NShl(x.m, x.e - Min2(x.e, y.e)),
                     y.s, NShl(y.m, y.e - Min2(x.e, y.e)), Min2(x.e, y.e))

\* x - y
FSub(x, y) == FAdd(x, FNeg(y))

\* x * y
FMul(x, y) ==
    IF x.s = 0 \/ y.s = 0 THEN FZero
    ELSE RoundRatio(x.s * y.s, NMul(x.m, y.m), NOne, x.e + y.e)

\* x / y, for y # 0 (Python raises ZeroDivisionError when y = 0: the callers
\* test y first)
FDiv(x, y) ==
    IF x.s = 0 \/ y.s = 0 THEN FZero
    ELSE RoundRatio(x.s * y.s, x.m, y.m, x.e - y.e)

\* -1, 0 or 1 as x < y, x = y or x > y
FCmp(x, y) ==
    IF x.s # y.s THEN (IF x.s > y.s THEN 1 ELSE -1)
    ELSE IF x.s = 0 THEN 0
    ELSE IF x.e > y.e THEN x.s
    ELSE IF x.e < y.e THEN -x.s
    ELSE x.s * NCmp(x.m, y.m)

FLt(x, y) == FCmp(x, y) < 0

FGt(x, y) == FCmp(x, y) > 0

\* A * 2^(-k) (k > 0) rounded to the nearest integer, ties to even, given
\* its integer part q
RoundShifted(A, k, q) ==
    NVal(RoundQuotient(q, NSub(A, NShl(q, k)), NShl(NOne, k)))

\* the exact value of x, times the digit k, rounded to the nearest integer,
\* ties to even, for |x| < 2^52 / k
FRoundScaled(x, k) ==
    IF x.s = 0 THEN 0
    ELSE IF x.e >= 0 THEN x.s * NVal(NShl(NMulSmall(x.m, k), x.e))
    ELSE x.s * RoundShifted(NMulSmall(x.m, k), -x.e, NShr(NMulSmall(x.m, k), -x.e))

\* round(x, 2) and f"{x:.2f}", as a number of cents
FRoundCents(x) == FRoundScaled(x, 100)

\* f"{x:.1f}", as a number of tenths
FRoundTenths(x) == FRoundScaled(x, 10)

(***************************************************************************)
(* The stores.  A day is an integer; a FlightData row is                   *)
(* [route, dep, price, scraped]: the route id, the departure date, the     *)
(* price in cents and the day it was scraped.  A MarketDemand row is       *)
(* [route, date, search_volume, average_price, price_trend, demand_level], *)
(* average_price in cents.  Rows are never deleted: a store is the         *)
(* sequence of its rows in primary-key order, the order in which a query   *)
(* without order_by returns them.                                          *)
(***************************************************************************)
VARIABLES
    now,        \* timezone.now(), in half days
    flights,    \* the FlightData table
    demand,     \* the MarketDemand table
    aggResult,  \* what the last process_flight_data() returned
    insights,   \* the Insight table
    genResult,  \* what the last generate_insights() returned
    runs,       \* the generate_insights() calls in progress, per worker
    args,       \* the arguments of the function under study
    ret,        \* what it returned
    lastOp      \* the operation that made the last step

vars == <<now, flights, demand, aggResult, insights, genResult, runs, args, ret, lastOp>>

insightVars == <<insights, genResult, runs>>

\* timezone.now() and scraped_at are datetimes, counted in half days from the
\* midnight of day 0: 2 * d is the midnight of day d and 2 * d + 1 its noon.
\* datetime.date(): the day of a datetime
DateOf(t) == t \div 2

\* timedelta(days=days)
timedelta(days) == 2 * days

\* the Route table: Route.id is the index
RouteTable ==
    << [origin |-> "SYD", destination |-> "MEL", airline |-> "QF"],
       [origin |-> "SYD", destination |-> "MEL", airline |-> "VA"],
       [origin |-> "BNE", destination |-> "PER", airline |-> "QF"],
       [origin |-> "MEL", destination |-> "SYD", airline |-> "QF"],
       [origin |-> "SYD", destination |-> "BNE", airline |-> "JQ"] >>

PriceTrends == {"increasing", "decreasing", "stable"}

DemandLevels == {"low", "medium", "high", "very_high"}

----------------------------------------------------------------------------
(***************************************************************************)
(* The inputs the specifications draw from                                 *)
(***************************************************************************)
MaxFlights == 3

\* what scrape_sample_data stores: <<route, days from now to the departure,
\* price in cents>>
FlightChoices ==
    { <<1, 1, 24001>>, <<1, 0, 20000>>, <<1, 1, 20000>>, <<3, 0, 20000>> }

Prices == {c[3] : c \in FlightChoices}

\* the Amadeus writes: route, travelers score, random.randint(200, 800)
ScraperRoutes == {1}

ScraperScores == {25}

ScraperPrices == {203}

\* the draws of scrape_sample_data for a MarketDemand row:
\* random.randint(10, 100), random.choice of the trends and of the levels
SampleVolumes == {82}

SampleTrends == {"increasing", "decreasing"}

SampleLevels == {"low", "high"}

\* the later times the clock is moved to.  For the insight service: the
\* midnight of day 1, and the midnight and the noon of day 7, which has the
\* flights scraped at the midnight of day 0 in the 7-day window and out of it.
\* For the aggregation: the noon of day 0 and the noon of day 30, which has
\* the flights scraped at the noon of day 0 in the 30-day window and those
\* scraped at its midnight out of it
ClockTimes == {2, 14, 15}

AggClockTimes == {1, 61}

\* calculate_price_trend under study: the stored prior averages and the new
\* averages, in cents
TrendPriors == {10000, 20000, 20300}

TrendNews ==
    { 8900, 8999, 9000, 9001, 10000, 10500, 10999, 11000, 11001, 11100,
      17999, 18000, 18270, 20000, 22000, 22330, 22331 }

\* calculate_demand_level under study: the counts up to MaxCount and the
\* average prices, in cents
MaxCount == 26

DemandPrices == {5000, 90000}

\* analyze_price_trends under study: the prices of one route, in cents
MaxObs == 3

VolPrices == {5300, 5350, 8490, 30000}

VolPriceLists == {ps : ps \in UNION {[1..n -> VolPrices] : n \in 1..MaxObs}}

\* analyze_popular_routes under study: the routes of the observations
MaxPopObs == 5

PopRouteLists == {rs : rs \in UNION {[1..n -> 1..5] : n \in 1..MaxPopObs}}

\* analyze_seasonal_patterns under study: the prices, in cents, of the
\* flights that depart on a Saturday and of those that depart on a Friday
WeekendStudyPrices == {10500, 11000, 11500, 6587, 6679}

WeekdayStudyPrices == {10000, 6030}

WeekendStudyLists ==
    {<<>>} \cup {<<p>> : p \in WeekendStudyPrices}
           \cup {<<p, q>> : p \in WeekendStudyPrices, q \in WeekendStudyPrices}

WeekdayStudyLists == {<<>>} \cup {<<p>> : p \in WeekdayStudyPrices}

\* a row of the FlightData table
Flight(r, d, p, s) == [route |-> r, dep |-> d, price |-> p, scraped |-> s]

\* the FlightData tables the insight runs are studied over, scraped on day 0
InsightFlightSets ==
    { <<>>,
      <<Flight(1, 0, 5300, 0), Flight(1, 0, 30000, 0), Flight(2, 1, 30000, 0)>>,
      <<Flight(3, 0, 5300, 0), Flight(3, 0, 5300, 0), Flight(3, 0, 5300, 0),
        Flight(4, 0, 20000, 0)>> }

\* FlightData tables with a route whose three fares are 0.00, after or before
\* a route of three cheap fares
ZeroFlightSets ==
    { <<Flight(3, 0, 5300, 0), Flight(3, 0, 5300, 0), Flight(3, 0, 5300, 0),
        Flight(4, 0, 0, 0), Flight(4, 0, 0, 0), Flight(4, 0, 0, 0)>>,
      <<Flight(4, 0, 0, 0), Flight(4, 0, 0, 0), Flight(4, 0, 0, 0),
        Flight(3, 0, 5300, 0), Flight(3, 0, 5300, 0), Flight(3, 0, 5300, 0)>> }

\* what the Gemini model answers: no model is configured, text that is not
\* JSON, or a JSON list of insights
GeminiResponses ==
    { [kind |-> "no_model", items |-> <<>>],
      [kind |-> "not_json", items |-> <<>>],
      [kind |-> "list",
       items |-> << [title |-> "Weekend Premium Pricing Pattern",
                     description |-> <<"gemini", "weekend">>,
                     type |-> "seasonal_pattern", confidence |-> 70],
                    [title |-> "Hostel Demand Outlook",
                     description |-> <<"gemini", "outlook">>,
                     type |-> "demand_forecast"] >>],
      [kind |-> "list",
       items |-> << [title |-> "Budget-Friendly Route: BNE-PER",
                     description |-> <<"gemini", "budget">>,
                     type |-> "price_trend", confidence |-> 95],
                    [title |-> "Weekend Premium Pricing Detected",
                     description |-> <<"gemini", "weekend">>,
                     type |-> "seasonal_pattern", confidence |-> 60] >>] }

\* the price lists of the groups: what the float results are tabulated for
AggPriceLists == {ps : ps \in UNION {[1..n -> Prices] : n \in 1..MaxFlights}}

TrendPriceLists == {<<p>> : p \in TrendNews}

GroupPriceLists == AggPriceLists \cup TrendPriceLists

----------------------------------------------------------------------------
(***************************************************************************)
(* DataProcessor                                                           *)
(***************************************************************************)

\* float(f.price): the binary64 nearest to a Decimal of cents / 100
FloatOfCents(c) == FFromRatio(c, 100)

\* sum(prices): 0 + p1 + p2 + ..., left to right
FSum(ps) ==
    LET acc[i \in 0..Len(ps)] ==
            IF i = 0 THEN FZero ELSE FAdd(acc[i - 1], FloatOfCents(ps[i]))
    IN  acc[Len(ps)]

\* sum(prices) / len(prices), for a non-empty list of prices in cents
AvgPrice(ps) == FDiv(FSum(ps), FFromInt(Len(ps)))

\* AvgPrice, and round(avg_price, 2) in cents, computed once per price list
AvgPriceOf == [ps \in GroupPriceLists |-> AvgPrice(ps)]

RoundedAvgOf == [ps \in GroupPriceLists |-> FRoundCents(AvgPriceOf[ps])]

DemandLevelOf(search_volume) ==
    IF search_volume >= 20 THEN "very_high"
    ELSE IF search_volume >= 10 THEN "high"
    ELSE IF search_volume >= 5 THEN "medium"
    ELSE "low"

\* thresholds that are not reached by the bound itself
calculate_demand_level_strict(search_volume, avg_price) ==
    IF search_volume > 20 THEN "very_high"
    ELSE IF search_volume > 10 THEN "high"
    ELSE IF search_volume > 5 THEN "medium"
    ELSE "low"

calculate_demand_level(search_volume, avg_price) ==
    DemandLevelOf(search_volume)

TrendUp == FFromRatio(1, 10)

TrendDown == FFromRatio(-1, 10)

\* the classification of price_change
TrendOfChange(price_change) ==
    IF FGt(price_change, TrendUp) THEN "increasing"
    ELSE IF FLt(price_change, TrendDown) THEN "decreasing"
    ELSE "stable"

\* price_change = (current_price - recent_price) / recent_price and its
\* class; a zero recent price raises ZeroDivisionError, which the handler
\* turns into 'stable'
PriceChangeTrend(current_price, recent_price) ==
    IF recent_price.s = 0 THEN "stable"
    ELSE TrendOfChange(FDiv(FSub(current_price, recent_price), recent_price))

\* recent_price = float(recent_data.average_price)
TrendAgainst(current_price, recent_cents) ==
    PriceChangeTrend(current_price, FloatOfCents(recent_cents))

\* the averages the store can hold, and TrendAgainst computed once per pair
\* of a new average and a stored one
AggAverages ==
    {RoundedAvgOf[ps] : ps \in AggPriceLists} \cup {100 * p : p \in ScraperPrices}

TrendPairs ==
    {<<AvgPriceOf[ps], c>> : ps \in AggPriceLists, c \in AggAverages}
        \cup {<<AvgPriceOf[ps], c>> : ps \in TrendPriceLists, c \in TrendPriors}

TrendOf == [p \in TrendPairs |-> TrendAgainst(p[1], p[2])]

\* a filter that takes the rows of the current date too
HistoricalDataThrough(dem, route, current_date) ==
    {i \in 1..Len(dem) :
        /\ dem[i].route = route
        /\ dem[i].date >= current_date - 7
        /\ dem[i].date <= current_date}

\* the rows MarketDemand.objects.filter(route, date >= date-7, date < date)
HistoricalData(dem, route, current_date) ==
    {i \in 1..Len(dem) :
        /\ dem[i].route = route
        /\ dem[i].date >= current_date - 7
        /\ dem[i].date < current_date}

\* .order_by('-date').first(): a row of the greatest date
MostRecent(dem, hist) ==
    CHOOSE i \in hist :
        \A j \in hist : dem[j].date < dem[i].date \/ (dem[j].date = dem[i].date /\ i <= j)

\* current_price is the float average
calculate_price_trend(dem, route, current_date, current_price) ==
    LET hist == HistoricalData(dem, route, current_date)
    IN  IF hist = {} THEN "stable"
        ELSE TrendOf[<<current_price, dem[MostRecent(dem, hist)].average_price>>]

\* a store that inserts without looking the key up
create_always(dem, row) ==
    [store |-> Append(dem, row), created |-> TRUE, raised |-> FALSE]

\* MarketDemand.objects.update_or_create(route=, date=, defaults=)
update_or_create(dem, row) ==
    LET m == {i \in 1..Len(dem) : dem[i].route = row.route /\ dem[i].date = row.date}
    IN  IF m = {} THEN [store |-> Append(dem, row), created |-> TRUE, raised |-> FALSE]
        ELSE IF Cardinality(m) = 1
        THEN [store |-> [dem EXCEPT ![CHOOSE i \in m : TRUE] = row],
              created |-> FALSE, raised |-> FALSE]
        ELSE [store |-> dem, created |-> FALSE, raised |-> TRUE]

\* FlightData.objects.filter(scraped_at__gte=clock - timedelta(days=days)),
\* in table order: a comparison of datetimes
RecentFlights(fs, clock, days) ==
    SelectSeq(fs, LAMBDA f : f.scraped >= clock - timedelta(days))

GroupKey(f) == <<f.route, f.dep>>

\* the keys a dict gets when the keys ks are inserted one after the other:
\* the distinct keys, in the order of their first occurrence
FirstSeen(ks) ==
    LET first == {i \in 1..Len(ks) : \A j \in 1..(i - 1) : ks[j] # ks[i]}
        pos(k) == CHOOSE i \in first : Cardinality({j \in first : j <= i}) = k
    IN  [k \in 1..Cardinality(first) |-> ks[pos(k)]]

\* the keys of route_date_groups, in insertion order
GroupKeys(fs) == FirstSeen([i \in 1..Len(fs) |-> GroupKey(fs[i])])

\* a grouping that forgets the date
GroupOfRoute(fs, key) ==
    SelectSeq(fs, LAMBDA f : f.route = key[1])

\* route_date_groups[key]: the flights of a key, in table order
GroupOf(fs, key) ==
    SelectSeq(fs, LAMBDA f : GroupKey(f) = key)

PricesOf(fs) == [i \in 1..Len(fs) |-> fs[i].price]

\* the defaults of update_or_create, from the statistics of the group
GroupDefaults(dem, key, group, avg_price, search_volume) ==
    [route |-> key[1],
     date |-> key[2],
     search_volume |-> search_volume,
     average_price |-> RoundedAvgOf[PricesOf(group)],
     price_trend |-> calculate_price_trend(dem, key[1], key[2], avg_price),
     demand_level |-> calculate_demand_level(search_volume, avg_price)]

\* the MarketDemand row that the loop body builds for one group
GroupRow(dem, key, group) ==
    GroupDefaults(dem, key, group, AvgPriceOf[PricesOf(group)], Len(group))

ErrorResult == [processed |-> 0, insights_generated |-> 0, error |-> TRUE]

\* the loop over route_date_groups.items(), from group i on; an exception
\* leaves the loop: the rows written so far stay
RECURSIVE ProcessGroups(_, _, _, _, _)
\* a loop that counts every update_or_create
AfterUpsertCounting(fs, keys, i, dem, processed_count, u) ==
    IF u.raised
    THEN [demand |-> dem, result |-> ErrorResult]
    ELSE ProcessGroups(fs, keys, i + 1, u.store, processed_count + 1)

\* the loop after the update_or_create u of group i
AfterUpsert(fs, keys, i, dem, processed_count, u) ==
    IF u.raised
    THEN [demand |-> dem, result |-> ErrorResult]
    ELSE ProcessGroups(fs, keys, i + 1, u.store,
                       IF u.created THEN processed_count + 1 ELSE processed_count)

ProcessGroups(fs, keys, i, dem, processed_count) ==
    IF i > Len(keys)
    THEN [demand |-> dem,
          result |-> [processed |-> processed_count, insights_generated |-> 0,
                      error |-> FALSE]]
    ELSE AfterUpsert(fs, keys, i, dem, processed_count,
                     update_or_create(dem, GroupRow(dem, keys[i], GroupOf(fs, keys[i]))))

\* a run that rebuilds the table from the groups of the window
process_flight_data_rebuilding(fs, today, dem) ==
    IF RecentFlights(fs, today, 30) = <<>>
    THEN [demand |-> dem,
          result |-> [processed |-> 0, insights_generated |-> 0, error |-> FALSE]]
    ELSE ProcessGroups(RecentFlights(fs, today, 30),
                       GroupKeys(RecentFlights(fs, today, 30)), 1, <<>>, 0)

process_flight_data(fs, today, dem) ==
    LET recent_flights == RecentFlights(fs, today, 30)
    IN  IF recent_flights = <<>>
        THEN [demand |-> dem,
              result |-> [processed |-> 0, insights_generated |-> 0, error |-> FALSE]]
        ELSE ProcessGroups(recent_flights, GroupKeys(recent_flights), 1, dem, 0)

----------------------------------------------------------------------------
(***************************************************************************)
(* FlightScraper: the writes to the MarketDemand table                     *)
(***************************************************************************)

\* calculate_demand_level_from_score
calculate_demand_level_from_score(score) ==
    IF score >= 30 THEN "very_high"
    ELSE IF score >= 20 THEN "high"
    ELSE IF score >= 10 THEN "medium"
    ELSE "low"

\* MarketDemand.objects.get_or_create(route=, date=, defaults=)
get_or_create_demand(dem, row) ==
    LET m == {i \in 1..Len(dem) : dem[i].route = row.route /\ dem[i].date = row.date}
    IN  IF m = {} THEN [store |-> Append(dem, row), created |-> TRUE, raised |-> FALSE]
        ELSE IF Cardinality(m) = 1 THEN [store |-> dem, created |-> FALSE, raised |-> FALSE]
        ELSE [store |-> dem, created |-> FALSE, raised |-> TRUE]

----------------------------------------------------------------------------
(***************************************************************************)
(* AIProcessor.  An insight candidate is a dict with the keys title,       *)
(* description, type and confidence (in hundredths); a description is the  *)
(* tuple of what the text embeds.                                          *)
(***************************************************************************)

\* Airport.city by iata_code
CityOf ==
    [a \in {"SYD", "MEL", "BNE", "PER"} |->
        CASE a = "SYD" -> "Sydney"
          [] a = "MEL" -> "Melbourne"
          [] a = "BNE" -> "Brisbane"
          [] a = "PER" -> "Perth"]

\* f"{origin.iata_code}-{destination.iata_code}"
IataKey(r) == RouteTable[r].origin \o "-" \o RouteTable[r].destination

\* f"{origin.city} to {destination.city}"
CityKey(r) == CityOf[RouteTable[r].origin] \o " to " \o CityOf[RouteTable[r].destination]

\* route_prices[route_key], in cents, in table order
RoutePrices(fs, key) ==
    PricesOf(SelectSeq(fs, LAMBDA f : IataKey(f.route) = key))

MaxOf(ps) == CHOOSE x \in {ps[i] : i \in 1..Len(ps)} : \A i \in 1..Len(ps) : ps[i] <= x

MinOf(ps) == CHOOSE x \in {ps[i] : i \in 1..Len(ps)} : \A i \in 1..Len(ps) : ps[i] >= x

Half == FFromRatio(1, 2)

\* what analyze_price_trends does with the prices of a route that has at
\* least 3, from avg_price and max_price - min_price: "volatile" or "budget"
\* for the insight it appends, "none", or "raise" when the mean is 0
\* (ZeroDivisionError)
ClassOfSpread(avg_price, spread) ==
    IF avg_price.s = 0 THEN "raise"
    ELSE IF FGt(FDiv(spread, avg_price), Half) THEN "volatile"
    ELSE IF FLt(avg_price, FFromInt(200)) THEN "budget"
    ELSE "none"

\* the price lists of the route groups of the studied tables
AnalyzerPriceLists ==
    VolPriceLists \cup
        {RoutePrices(fs, IataKey(r)) :
            fs \in InsightFlightSets \cup ZeroFlightSets, r \in 1..Len(RouteTable)}

\* the class, and f"{avg_price:.2f}" in cents, from the average
VolatilityOfAverage(ps, avg_price) ==
    [class |-> ClassOfSpread(avg_price,
                   FSub(FloatOfCents(MaxOf(ps)), FloatOfCents(MinOf(ps)))),
     avg_cents |-> FRoundCents(avg_price)]

\* the class and the average in cents, computed once per list
VolatilityOf ==
    [ps \in {l \in AnalyzerPriceLists : Len(l) >= 3} |->
        VolatilityOfAverage(ps, AvgPrice(ps))] @@ <<>>

VolatilityInsight(key, ps, avg_cents) ==
    [title |-> "High Price Volatility on " \o key \o " Route",
     description |-> <<key, MinOf(ps), MaxOf(ps), avg_cents>>,
     type |-> "price_trend",
     confidence |-> 85]

BudgetInsight(key, avg_cents) ==
    [title |-> "Budget-Friendly Route: " \o key,
     description |-> <<key, avg_cents>>,
     type |-> "price_trend",
     confidence |-> 90]

\* what the loop body appends for a route of prices ps, v being
\* VolatilityOf[ps] when there are 3 prices or more
RouteInsights(key, ps, v) ==
    IF v.class = "volatile" THEN <<VolatilityInsight(key, ps, v.avg_cents)>>
    ELSE IF v.class = "budget" THEN <<BudgetInsight(key, v.avg_cents)>>
    ELSE <<>>

NoVolatility == [class |-> "none", avg_cents |-> 0]

\* the loop over route_prices.items(), from key i on; an exception ends the
\* analysis with the insights appended so far
RECURSIVE PriceTrendLoop(_, _, _, _)
PriceTrendStep(fs, keys, i, found, ps, v) ==
    IF v.class = "raise" THEN found
    ELSE PriceTrendLoop(fs, keys, i + 1, found \o RouteInsights(keys[i], ps, v))

PriceTrendLoop(fs, keys, i, found) ==
    IF i > Len(keys) THEN found
    ELSE PriceTrendStep(fs, keys, i, found, RoutePrices(fs, keys[i]),
                        IF Len(RoutePrices(fs, keys[i])) < 3 THEN NoVolatility
                        ELSE VolatilityOf[RoutePrices(fs, keys[i])])

analyze_price_trends(fs) ==
    PriceTrendLoop(fs, FirstSeen([i \in 1..Len(fs) |-> IataKey(fs[i].route)]), 1, <<>>)

\* route_counts: the city-pair keys in insertion order, the count of a key
\* and the iata pair stored when the key was inserted
RouteNames(fs) == FirstSeen([i \in 1..Len(fs) |-> CityKey(fs[i].route)])

RouteCount(fs, name) == Cardinality({i \in 1..Len(fs) : CityKey(fs[i].route) = name})

RouteIata(fs, name) ==
    IataKey(fs[CHOOSE i \in 1..Len(fs) :
                   /\ CityKey(fs[i].route) = name
                   /\ \A j \in 1..(i - 1) : CityKey(fs[j].route) # name].route)

\* sorted(route_counts.items(), key=count, reverse=True): a stable sort, the
\* keys of equal count stay in insertion order
SortedRoutes(fs) ==
    LET names == RouteNames(fs)
        before(a, b) ==
            \/ RouteCount(fs, names[a]) > RouteCount(fs, names[b])
            \/ (RouteCount(fs, names[a]) = RouteCount(fs, names[b]) /\ a < b)
        rank(a) == 1 + Cardinality({b \in 1..Len(names) : before(b, a)})
    IN  [k \in 1..Len(names) |-> names[CHOOSE a \in 1..Len(names) : rank(a) = k]]

RankText == <<"1", "2", "3">>

PopularInsight(fs, k, name) ==
    [title |-> "Popular Route #" \o RankText[k] \o ": " \o name,
     description |-> <<name, RouteIata(fs, name), RouteCount(fs, name)>>,
     type |-> "popular_route",
     confidence |-> 90]

analyze_popular_routes(fs) ==
    LET sorted_routes == SortedRoutes(fs)
    IN  [k \in 1..Min2(3, Len(sorted_routes)) |-> PopularInsight(fs, k, sorted_routes[k])]

\* date.weekday() of day 0: Friday (Monday is 0)
WeekdayOfDayZero == 4

Weekday(d) == (d + WeekdayOfDayZero) % 7

\* FlightData.objects.filter(departure_time__date__range=[today - 10, today])
SeasonalFlights(fs, today) ==
    SelectSeq(fs, LAMBDA f : f.dep >= today - 10 /\ f.dep <= today)

WeekendPrices(fs) == PricesOf(SelectSeq(fs, LAMBDA f : Weekday(f.dep) >= 5))

WeekdayPrices(fs) == PricesOf(SelectSeq(fs, LAMBDA f : Weekday(f.dep) < 5))

\* f"{((avg_weekend_price/avg_weekday_price - 1) * 100):.1f}", in tenths
PremiumPercent(avg_weekend_price, avg_weekday_price) ==
    FRoundTenths(FMul(FSub(FDiv(avg_weekend_price, avg_weekday_price), FFromInt(1)),
                      FFromInt(100)))

\* avg_weekend_price > avg_weekday_price * 1.1, and the two averages as
\* f"{...:.2f}" in cents; the division of the description raises
\* ZeroDivisionError when avg_weekday_price is 0.0
WeekendPremium(avg_weekend_price, avg_weekday_price) ==
    [premium |-> FGt(avg_weekend_price, FMul(avg_weekday_price, FFromRatio(11, 10))),
     weekend |-> FRoundCents(avg_weekend_price),
     weekday |-> FRoundCents(avg_weekday_price),
     zero_division |-> avg_weekday_price.s = 0,
     percent |-> IF avg_weekday_price.s = 0 THEN 0
                 ELSE PremiumPercent(avg_weekend_price, avg_weekday_price)]

\* the days of the clock
Days == {DateOf(t) : t \in {0} \cup ClockTimes}

\* the times that the clock may show when a call that begins at t reads it
\* again: the call may run over noon or over midnight
LaterTimes(t) ==
    {u \in {t} \cup ClockTimes : u >= t /\ DateOf(u) <= DateOf(t) + 1}

\* the weekend and weekday price lists of the studied tables
SeasonalInputs ==
    {<<WeekendPrices(SeasonalFlights(fs, d)), WeekdayPrices(SeasonalFlights(fs, d))>> :
        fs \in InsightFlightSets, d \in Days}
        \cup (WeekendStudyLists \X WeekdayStudyLists)

\* WeekendPremium, computed once per input
WeekendPremiumOf ==
    [p \in {q \in SeasonalInputs : q[1] # <<>> /\ q[2] # <<>>} |->
        WeekendPremium(AvgPrice(p[1]), AvgPrice(p[2]))] @@ <<>>

\* the insight of the comparison w of the two averages: none when building
\* the description raises, the except clause returns the empty list
SeasonalInsight(w) ==
    IF w.premium /\ ~w.zero_division
    THEN << [title |-> "Weekend Premium Pricing Pattern",
             description |-> <<w.weekend, w.weekday, w.percent>>,
             type |-> "seasonal_pattern",
             confidence |-> 85] >>
    ELSE <<>>

analyze_seasonal_patterns(fs, today) ==
    LET season == SeasonalFlights(fs, today)
        weekend_prices == WeekendPrices(season)
        weekday_prices == WeekdayPrices(season)
    IN  IF weekend_prices = <<>> \/ weekday_prices = <<>> THEN <<>>
        ELSE SeasonalInsight(WeekendPremiumOf[<<weekend_prices, weekday_prices>>])

\* what the Gemini model may also answer: a single JSON object, a list with
\* an item that has no title, a list with a confidence of 1.5 and a type
\* that Insight.INSIGHT_TYPES does not have
SynthResponses ==
    { [kind |-> "not_json", items |-> <<>>],
      [kind |-> "object",
       items |-> << [title |-> "Hostel Demand Outlook",
                     description |-> <<"gemini", "outlook">>,
                     type |-> "demand_forecast", confidence |-> 85] >>],
      [kind |-> "list",
       items |-> << [description |-> <<"gemini", "untitled">>,
                     type |-> "demand_forecast", confidence |-> 85] >>],
      [kind |-> "list",
       items |-> << [title |-> "Hostel Demand Outlook",
                     description |-> <<"gemini", "outlook">>,
                     type |-> "demand_forecast", confidence |-> 85],
                    [title |-> "Flexible Dates Save Money",
                     description |-> <<"gemini", "flexible">>,
                     type |-> "travel_tip", confidence |-> 150] >>] }

\* the keys of a JSON object, in the order of the prompt's example
ObjectKeys == <<"title", "description", "type", "confidence">>

\* list.extend of a JSON object: its keys, each one a string
KeysOf(item) ==
    LET keys == SelectSeq(ObjectKeys, LAMBDA k : k \in DOMAIN item)
    IN  [i \in 1..Len(keys) |-> [str |-> keys[i]]]

\* a parser that hands the text on when it is not JSON
generate_gemini_insights_unparsed(response) ==
    IF response.kind = "list" THEN response.items
    ELSE IF response.kind = "object" THEN KeysOf(response.items[1])
    ELSE << [str |-> "text"] >>

\* generate_gemini_insights: insights.extend of the parsed JSON, or nothing
\* when the answer is not JSON
generate_gemini_insights(response) ==
    IF response.kind = "list" THEN response.items
    ELSE IF response.kind = "object" THEN KeysOf(response.items[1])
    ELSE <<>>

\* a list that starts with the answer of the Gemini model
CandidatesSynthFirst(fs, today, end_date, response) ==
    (IF response.kind = "no_model" THEN <<>> ELSE generate_gemini_insights(response))
        \o analyze_price_trends(RecentFlights(fs, today, 7))
        \o analyze_popular_routes(RecentFlights(fs, today, 7))
        \o analyze_seasonal_patterns(fs, end_date)

\* the list generate_insights builds before it saves; today is
\* timezone.now() when the window is cut, end_date the day of timezone.now()
\* when analyze_seasonal_patterns runs, the same day or a later one
Candidates(fs, today, end_date, response) ==
    LET recent_flights == RecentFlights(fs, today, 7)
    IN  analyze_price_trends(recent_flights)
            \o analyze_popular_routes(recent_flights)
            \o analyze_seasonal_patterns(fs, end_date)
            \o (IF response.kind = "no_model" THEN <<>>
                ELSE generate_gemini_insights(response))

\* the rule-based analyzers; each one runs in a try block of its own
Analyzers == {"price_trends", "popular_routes", "seasonal_patterns"}

\* what an analyzer returns when an exception reaches its except clause
\* before it has appended an insight: the empty list
Guarded(faulted, found) == IF faulted THEN <<>> ELSE found

\* a list that an exception in an analyzer empties as a whole
CandidatesAborted(fs, today, end_date, response, fault) ==
    IF fault = "none" THEN Candidates(fs, today, end_date, response) ELSE <<>>

\* the list generate_insights builds when the analyzer fault ("none" for no
\* analyzer) meets an exception
CandidatesUnder(fs, today, end_date, response, fault) ==
    Guarded(fault = "price_trends", analyze_price_trends(RecentFlights(fs, today, 7)))
        \o Guarded(fault = "popular_routes",
                   analyze_popular_routes(RecentFlights(fs, today, 7)))
        \o Guarded(fault = "seasonal_patterns", analyze_seasonal_patterns(fs, end_date))
        \o (IF response.kind = "no_model" THEN <<>>
            ELSE generate_gemini_insights(response))

MockInsights ==
    << [title |-> "Sydney-Melbourne Route Shows Strong Demand",
        description |-> <<"mock", "Sydney to Melbourne">>,
        type |-> "popular_route", confidence |-> 85],
       [title |-> "Weekend Premium Pricing Detected",
        description |-> <<"mock", "weekend">>,
        type |-> "seasonal_pattern", confidence |-> 90],
       [title |-> "Brisbane-Gold Coast Corridor Opportunity",
        description |-> <<"mock", "Brisbane to Gold Coast">>,
        type |-> "demand_forecast", confidence |-> 75] >>

\* the Insight row that get_or_create builds from a candidate
InsightRow(c, generated_by) ==
    [title |-> c.title,
     description |-> c.description,
     insight_type |-> c.type,
     confidence_score |-> IF "confidence" \in DOMAIN c THEN c.confidence ELSE 80,
     generated_by |-> generated_by]

\* the get of get_or_create: the rows of the title
TitleRows(store, title) == {i \in 1..Len(store) : store[i].title = title}

\* building the arguments raises KeyError when a key is missing, TypeError
\* when the candidate is a string; the get
\* raises MultipleObjectsReturned when the title has several rows
LookupRaises(store, c) ==
    \/ ~({"title", "description", "type"} \subseteq DOMAIN c)
    \/ Cardinality(TitleRows(store, c.title)) > 1

\* a store that inserts without looking the title up
create_insight_always(store, c, generated_by) ==
    [store |-> Append(store, InsightRow(c, generated_by)), created |-> TRUE,
     raised |-> FALSE]

\* a store that rewrites the row of a title it holds
update_or_create_insight(store, c, generated_by) ==
    IF LookupRaises(store, c)
    THEN [store |-> store, created |-> FALSE, raised |-> TRUE]
    ELSE IF TitleRows(store, c.title) = {}
    THEN [store |-> Append(store, InsightRow(c, generated_by)), created |-> TRUE,
          raised |-> FALSE]
    ELSE [store |-> [store EXCEPT ![CHOOSE i \in TitleRows(store, c.title) : TRUE] =
                        InsightRow(c, generated_by)],
          created |-> FALSE, raised |-> FALSE]

\* Insight.objects.get_or_create(title=, defaults=)
get_or_create_insight(store, c, generated_by) ==
    IF LookupRaises(store, c)
    THEN [store |-> store, created |-> FALSE, raised |-> TRUE]
    ELSE IF TitleRows(store, c.title) = {}
    THEN [store |-> Append(store, InsightRow(c, generated_by)), created |-> TRUE,
          raised |-> FALSE]
    ELSE [store |-> store, created |-> FALSE, raised |-> FALSE]

\* serialize_insight, of the row with primary key id
Serialized(store, id) ==
    [id |-> id,
     title |-> store[id].title,
     description |-> store[id].description,
     type |-> store[id].insight_type,
     confidence |-> store[id].confidence_score,
     generated_by |-> store[id].generated_by]

\* the save loop, from candidate i on: the rows written before an exception
\* stay
RECURSIVE SaveFrom(_, _, _, _, _)
SaveFrom(store, cands, i, generated_by, saved) ==
    IF i > Len(cands) THEN [store |-> store, saved |-> saved, raised |-> FALSE]
    ELSE LET g == get_or_create_insight(store, cands[i], generated_by)
         IN  IF g.raised THEN [store |-> store, saved |-> saved, raised |-> TRUE]
             ELSE SaveFrom(g.store, cands, i + 1, generated_by,
                           IF g.created
                           THEN Append(saved, Serialized(g.store, Len(g.store)))
                           ELSE saved)

\* [store, result]: result.ok is FALSE when the call raises
generate_mock_insights(store) ==
    LET s == SaveFrom(store, MockInsights, 1, "Mock_AI_Processor", <<>>)
    IN  [store |-> s.store, result |-> [ok |-> ~s.raised, insights |-> s.saved]]

\* the mock insights m of an empty window, called inside the try: when the
\* call raised, the except clause calls generate_mock_insights again
MockOrMock(m) ==
    IF m.result.ok THEN m ELSE generate_mock_insights(m.store)

\* the end of generate_insights after the save loop s: the saved insights,
\* or the mock insights when the loop raised
SavedOrMock(s) ==
    IF s.raised THEN generate_mock_insights(s.store)
    ELSE [store |-> s.store, result |-> [ok |-> TRUE, insights |-> s.saved]]

generate_insights(fs, today, end_date, store, response) ==
    IF RecentFlights(fs, today, 7) = <<>>
    THEN MockOrMock(generate_mock_insights(store))
    ELSE SavedOrMock(SaveFrom(store, Candidates(fs, today, end_date, response), 1,
                              "AI_Processor", <<>>))

\* generate_insights when the analyzer fault meets an exception
generate_insights_under(fs, today, end_date, store, response, fault) ==
    IF RecentFlights(fs, today, 7) = <<>>
    THEN MockOrMock(generate_mock_insights(store))
    ELSE SavedOrMock(SaveFrom(store,
                              CandidatesUnder(fs, today, end_date, response, fault), 1,
                              "AI_Processor", <<>>))

\* the save loop s ended by an exception
RaisedAfter(s) == [store |-> s.store, saved |-> s.saved, raised |-> TRUE]

\* the save loop when the get_or_create of candidate failAt meets a database
\* error (0: no error)
SaveUntil(store, cands, failAt, generated_by) ==
    IF failAt \in 1..Len(cands)
    THEN RaisedAfter(SaveFrom(store, SubSeq(cands, 1, failAt - 1), 1, generated_by, <<>>))
    ELSE SaveFrom(store, cands, 1, generated_by, <<>>)

\* the end of generate_insights after the save loop s: when the database is
\* still down, the get_or_create of the mock fallback raises out of
\* generate_insights
SavedOrMockUnless(s, down) ==
    IF s.raised /\ down
    THEN [store |-> s.store, result |-> [ok |-> FALSE, insights |-> <<>>]]
    ELSE SavedOrMock(s)

\* generate_insights when the database fails at the get_or_create of
\* candidate failAt, and stays down or not
generate_insights_failing(fs, today, end_date, store, response, failAt, down) ==
    IF RecentFlights(fs, today, 7) = <<>>
    THEN MockOrMock(generate_mock_insights(store))
    ELSE SavedOrMockUnless(SaveUntil(store, Candidates(fs, today, end_date, response),
                                     failAt,
                                     "AI_Processor"), down)

----------------------------------------------------------------------------
(***************************************************************************)
(* The aggregation service: the scraper fills the tables, the clock moves, *)
(* process_flight_data() runs, one run at a time.                          *)
(***************************************************************************)
NoResult == [processed |-> 0, insights_generated |-> 0, error |-> FALSE]

NoArgs == [f |-> "none"]

NoInsights == [ok |-> TRUE, insights |-> <<>>]

Workers == {1, 2}

\* guarded: the run is inside the try of generate_insights; model: self.model
\* is configured
IdleRun ==
    [pc |-> "idle", cands |-> <<>>, i |-> 0, saved |-> <<>>, tag |-> "none",
     guarded |-> TRUE, model |-> FALSE]

NoRuns == [w \in Workers |-> IdleRun]

AggInit ==
    /\ now = 0
    /\ flights = <<>>
    /\ demand = <<>>
    /\ aggResult = NoResult
    /\ insights = <<>>
    /\ genResult = NoInsights
    /\ runs = NoRuns
    /\ args = NoArgs
    /\ ret = "none"
    /\ lastOp = "init"

\* scrape_sample_data: FlightData.objects.create(...)
StoreFlight(r, off, p) ==
    /\ Len(flights) < MaxFlights
    /\ flights' = Append(flights, Flight(r, DateOf(now) + off, p, now))
    /\ lastOp' = "flight"
    /\ UNCHANGED <<now, demand, aggResult, insightVars, args, ret>>

\* process_traveled_destinations: MarketDemand.objects.update_or_create(...)
ScraperUpsert(r, score, price) ==
    LET u == update_or_create(demand,
                 [route |-> r, date |-> DateOf(now), search_volume |-> score * 100,
                  average_price |-> price * 100, price_trend |-> "stable",
                  demand_level |-> calculate_demand_level_from_score(score)])
    IN  /\ ~u.raised
        /\ demand' = u.store
        /\ lastOp' = "scraper"
        /\ UNCHANGED <<now, flights, aggResult, insightVars, args, ret>>

\* scrape_sample_data: MarketDemand.objects.get_or_create(...) with random
\* defaults
SampleDemand(r, search_volume, average_price, price_trend, demand_level) ==
    LET g == get_or_create_demand(demand,
                 [route |-> r, date |-> DateOf(now), search_volume |-> search_volume,
                  average_price |-> average_price * 100,
                  price_trend |-> price_trend, demand_level |-> demand_level])
    IN  /\ ~g.raised
        /\ demand' = g.store
        /\ lastOp' = "sample"
        /\ UNCHANGED <<now, flights, aggResult, insightVars, args, ret>>

AdvanceClock(d) ==
    /\ d > now
    /\ now' = d
    /\ lastOp' = "clock"
    /\ UNCHANGED <<flights, demand, aggResult, insightVars, args, ret>>

RunAggregation ==
    \E run \in {process_flight_data(flights, now, demand)} :
        /\ demand' = run.demand
        /\ aggResult' = run.result
        /\ lastOp' = "agg"
        /\ UNCHANGED <<now, flights, insightVars, args, ret>>

AggNext ==
    \/ \E c \in FlightChoices : StoreFlight(c[1], c[2], c[3])
    \/ \E r \in ScraperRoutes, score \in ScraperScores, price \in ScraperPrices :
           ScraperUpsert(r, score, price)
    \/ \E r \in ScraperRoutes, volume \in SampleVolumes, price \in ScraperPrices,
          trend \in SampleTrends, level \in SampleLevels :
           SampleDemand(r, volume, price, trend, level)
    \/ \E d \in AggClockTimes : AdvanceClock(d)
    \/ RunAggregation

SpecAgg == AggInit /\ [][AggNext]_vars

----------------------------------------------------------------------------
(***************************************************************************)
(* Properties of the aggregation service                                   *)
(***************************************************************************)

\* the observations of the window of a run made now
Window == RecentFlights(flights, now, 30)

WindowKeys == {<<Window[i].route, Window[i].dep>> : i \in 1..Len(Window)}

\* the sum of the prices of a group, in cents
RECURSIVE CentsSum(_)
CentsSum(ps) == IF ps = <<>> THEN 0 ELSE Head(ps) + CentsSum(Tail(ps))

\* the observations of the window that are of route key[1] and depart on
\* day key[2]
ObservationsOf(key) ==
    SelectSeq(Window, LAMBDA f : f.route = key[1] /\ f.dep = key[2])

RowsOf(dem, key) == {i \in 1..Len(dem) : <<dem[i].route, dem[i].date>> = key}

\* C1: a second aggregation run right after a first one, over the same
\* observations and window, leaves every MarketDemand row as the first run
\* left it.
C1_SecondRunChangesNothing ==
    [][(lastOp = "agg" /\ lastOp' = "agg") => demand' = demand]_vars

UniqueDemandKeys ==
    \A i, j \in 1..Len(demand) :
        (demand[i].route = demand[j].route /\ demand[i].date = demand[j].date) => i = j

\* a run keeps every record in its place under its key, adds one record per
\* group that had none, and gives the record of a group the group's volume
AggReplaces ==
    (lastOp' = "agg" /\ ~aggResult'.error) =>
        /\ \A i \in 1..Len(demand) :
               /\ demand'[i].route = demand[i].route
               /\ demand'[i].date = demand[i].date
               /\ <<demand[i].route, demand[i].date>> \in WindowKeys =>
                      demand'[i].search_volume =
                          Len(ObservationsOf(<<demand[i].route, demand[i].date>>))
        /\ Len(demand') =
               Len(demand) + Cardinality({k \in WindowKeys : RowsOf(demand, k) = {}})

\* C28: the processed count of a run that ends without error is the number
\* of MarketDemand records the run has created: at most the number of groups
\* of the window, and 0 for a run right after a run.
C28_ProcessedCountsCreated ==
    [][(lastOp' = "agg" /\ ~aggResult'.error) =>
          /\ aggResult'.processed = Len(demand') - Len(demand)
          /\ aggResult'.processed =
                 Cardinality({k \in WindowKeys : RowsOf(demand, k) = {}})
          /\ aggResult'.processed <= Cardinality(WindowKeys)
          /\ lastOp = "agg" => aggResult'.processed = 0]_vars

\* a run over two groups has created the record of one and replaced the
\* record of the other
C28_Witness ==
    /\ lastOp = "agg"
    /\ ~aggResult.error
    /\ aggResult.processed = 1
    /\ Cardinality(WindowKeys) = 2
    /\ Len(demand) = 2

\* C29: a run leaves every record whose (route, date) has no observation in
\* the window as it is, deletes no record, creates records only for keys of
\* the window, and over an empty window changes nothing and returns
\* processed = 0 without an error.
C29_RunFrame ==
    [][lastOp' = "agg" =>
          /\ Len(demand') >= Len(demand)
          /\ \A i \in 1..Len(demand) :
                 IF <<demand[i].route, demand[i].date>> \in WindowKeys
                 THEN /\ demand'[i].route = demand[i].route
                      /\ demand'[i].date = demand[i].date
                 ELSE demand'[i] = demand[i]
          /\ \A i \in (Len(demand) + 1)..Len(demand') :
                 <<demand'[i].route, demand'[i].date>> \in WindowKeys
          /\ Window = <<>> =>
                 /\ demand' = demand
                 /\ aggResult' = [processed |-> 0, insights_generated |-> 0,
                                  error |-> FALSE]]_vars

\* a run over a non-empty window has ended with a record in the table whose
\* key has no observation in the window, and a record of a key that has
C29_Witness ==
    /\ lastOp = "agg"
    /\ Window # <<>>
    /\ \E i, j \in 1..Len(demand) :
           /\ <<demand[i].route, demand[i].date>> \notin WindowKeys
           /\ <<demand[j].route, demand[j].date>> \in WindowKeys

\* C4: the MarketDemand store never holds two records of one (route, date),
\* whatever aggregation runs and scraper writes happened, and a run over a
\* key that has a record replaces that record instead of adding one.
C4_OneRecordPerKey == [](UniqueDemandKeys) /\ [][AggReplaces]_vars

\* a run has just replaced a record with the statistics of a group of two
C4_Witness ==
    /\ lastOp = "agg"
    /\ aggResult.processed = 0
    /\ \E i \in 1..Len(demand) : demand[i].search_volume = 2

\* every group of the window has its record, with the group's count
GroupsUpserted(exactMean) ==
    \A k \in WindowKeys :
        LET ps == PricesOf(ObservationsOf(k))
            n == Len(ps)
        IN  /\ Cardinality(RowsOf(demand, k)) = 1
            /\ \A i \in RowsOf(demand, k) :
                   /\ demand[i].search_volume = n
                   /\ IF exactMean
                      THEN n * demand[i].average_price = CentsSum(ps)
                      ELSE /\ 2 * (n * demand[i].average_price - CentsSum(ps)) <= n
                           /\ 2 * (CentsSum(ps) - n * demand[i].average_price) <= n

\* C7 as stated: after a run, the record of every (route, departure date)
\* group has the group's count as volume and the arithmetic mean of the
\* group's prices as average price.
C7_AverageIsMean ==
    (lastOp = "agg" /\ ~aggResult.error) => GroupsUpserted(TRUE)

\* C7: after a run, the record of every (route, departure date) group has the
\* group's count as volume and, as average price, the mean of the group's
\* prices rounded to the cent: it is within half a cent of the mean.  Only
\* the observations of the group enter either number.
C7_AverageIsRoundedMean ==
    (lastOp = "agg" /\ ~aggResult.error) => GroupsUpserted(FALSE)

\* a run over two routes and a group whose mean is not a number of cents
C7_Witness ==
    /\ lastOp = "agg"
    /\ ~aggResult.error
    /\ Cardinality({k[1] : k \in WindowKeys}) = 2
    /\ \E k \in WindowKeys :
           LET ps == PricesOf(ObservationsOf(k))
           IN  Len(ps) = 2 /\ CentsSum(ps) % 2 = 1

----------------------------------------------------------------------------
(***************************************************************************)
(* calculate_demand_level, applied to drawn arguments                      *)
(***************************************************************************)
DemandLevelInit ==
    /\ now = 0
    /\ flights = <<>>
    /\ demand = <<>>
    /\ aggResult = NoResult
    /\ insights = <<>>
    /\ genResult = NoInsights
    /\ runs = NoRuns
    /\ args \in [f : {"calculate_demand_level"},
                 search_volume : 1..MaxCount,
                 avg_price : DemandPrices]
    /\ ret = "none"
    /\ lastOp = "init"

CallDemandLevel ==
    /\ args.f = "calculate_demand_level"
    /\ lastOp = "init"
    /\ ret' = calculate_demand_level(args.search_volume, FloatOfCents(args.avg_price))
    /\ lastOp' = "call"
    /\ UNCHANGED <<now, flights, demand, aggResult, insightVars, args>>

SpecDemandLevel == DemandLevelInit /\ [][CallDemandLevel]_vars

\* C5: the demand level is very_high from 20 observations on, high from 10
\* to 19, medium from 5 to 9 and low below 5, whatever the average price.
C5_DemandLevelThresholds ==
    (args.f = "calculate_demand_level" /\ lastOp = "call") =>
        LET n == args.search_volume
        IN  /\ ret = "very_high" <=> n >= 20
            /\ ret = "high" <=> (10 <= n /\ n < 20)
            /\ ret = "medium" <=> (5 <= n /\ n < 10)
            /\ ret = "low" <=> n < 5

\* the level of exactly 20 observations has been computed
C5_Witness ==
    /\ args.f = "calculate_demand_level"
    /\ args.search_volume = 20
    /\ ret = "very_high"

----------------------------------------------------------------------------
(***************************************************************************)
(* calculate_price_trend, applied to a drawn new average with a drawn      *)
(* prior record in the store                                               *)
(***************************************************************************)
PriorRow(avg) ==
    [route |-> 1, date |-> 0, search_volume |-> 1, average_price |-> avg,
     price_trend |-> "stable", demand_level |-> "low"]

TrendInit ==
    /\ now = 1
    /\ flights = <<>>
    /\ args \in [f : {"calculate_price_trend"}, prior : TrendPriors, new : TrendNews]
    /\ demand = <<PriorRow(args.prior)>>
    /\ aggResult = NoResult
    /\ insights = <<>>
    /\ genResult = NoInsights
    /\ runs = NoRuns
    /\ ret = "none"
    /\ lastOp = "init"

\* the call the aggregation makes for a group of one observation of route 1
\* that departs on day 1
CallPriceTrend ==
    /\ args.f = "calculate_price_trend"
    /\ lastOp = "init"
    /\ ret' = calculate_price_trend(demand, 1, 1, AvgPriceOf[<<args.new>>])
    /\ lastOp' = "call"
    /\ UNCHANGED <<now, flights, demand, aggResult, insightVars, args>>

SpecTrend == TrendInit /\ [][CallPriceTrend]_vars

\* the class of (new - prior) / prior against 0.10 and -0.10, for prior > 0
ExactTrend(new, prior) ==
    IF 10 * (new - prior) > prior THEN "increasing"
    ELSE IF 10 * (new - prior) < -prior THEN "decreasing"
    ELSE "stable"

\* C6: against a prior average > 0 the trend is increasing exactly when the
\* relative change is above 0.10, decreasing exactly when it is below -0.10,
\* and stable otherwise: a change of exactly 10% either way is stable.
C6_TrendThresholds ==
    (args.f = "calculate_price_trend" /\ lastOp = "call") =>
        ret = ExactTrend(args.new, args.prior)

----------------------------------------------------------------------------
(***************************************************************************)
(* The insight service: generate_insights() runs one at a time over a      *)
(* FlightData table, while the clock moves.                                *)
(***************************************************************************)
InsightInit ==
    /\ now = 0
    /\ flights \in InsightFlightSets
    /\ demand = <<>>
    /\ aggResult = NoResult
    /\ insights = <<>>
    /\ genResult = NoInsights
    /\ runs = NoRuns
    /\ args = NoArgs
    /\ ret = "none"
    /\ lastOp = "init"

\* a call of generate_insights() that begins now and reads the clock again,
\* at the time later, in analyze_seasonal_patterns
GenerateInsights(response, later) ==
    \E g \in {generate_insights(flights, now, DateOf(later), insights, response)} :
        /\ later >= now
        /\ now' = later
        /\ insights' = g.store
        /\ genResult' = g.result
        /\ args' = [f |-> "generate_insights", today |-> now]
        /\ lastOp' = "insights"
        /\ UNCHANGED <<flights, demand, aggResult, runs, ret>>

InsightNext ==
    \/ \E response \in GeminiResponses, later \in LaterTimes(now) :
           GenerateInsights(response, later)
    \/ \E d \in ClockTimes : AdvanceClock(d)

SpecInsight == InsightInit /\ [][InsightNext]_vars

NoDuplicateTitles ==
    \A i, j \in 1..Len(insights) : insights[i].title = insights[j].title => i = j

\* C2: whatever runs of generate_insights were made one after the other,
\* mock fallback included, the Insight table never holds two rows of one
\* title.
C2_TitlesUnique == NoDuplicateTitles

\* a run whose candidates were all stored already has created nothing
C2_Witness ==
    /\ lastOp = "insights"
    /\ Len(insights) >= 3
    /\ genResult.ok
    /\ genResult.insights = <<>>

\* C12: a run of generate_insights never deletes and never changes a stored
\* Insight: every row keeps its place, its title, description, type,
\* confidence and generator tag, also when a candidate of the run has its
\* title and another description.
C12_InsightsNeverChange ==
    [][/\ Len(insights') >= Len(insights)
       /\ \A i \in 1..Len(insights) : insights'[i] = insights[i]]_vars

\* the run that stored the Gemini insight "Hostel Demand Outlook" had, before
\* it in its list, the Gemini candidate titled like the stored seasonal
\* insight: it was discarded, the row has the description of the analyzer
C12_Witness ==
    \E i, j \in 1..Len(insights) :
        /\ i < j
        /\ insights[i].title = "Weekend Premium Pricing Pattern"
        /\ insights[i].description # <<"gemini", "weekend">>
        /\ insights[i].confidence_score = 85
        /\ insights[j].title = "Hostel Demand Outlook"

MockTitles == {MockInsights[i].title : i \in 1..Len(MockInsights)}

\* C13: every run over an empty observation window returns the three mock
\* insights, each with the mock generator tag, whatever the Insight table
\* held before the run.
C13_EmptyWindowYieldsMocks ==
    (lastOp = "insights" /\ RecentFlights(flights, args.today, 7) = <<>>) =>
        /\ genResult.ok
        /\ {genResult.insights[i].title : i \in 1..Len(genResult.insights)} = MockTitles
        /\ \A i \in 1..Len(genResult.insights) :
               genResult.insights[i].generated_by = "Mock_AI_Processor"

\* who wrote the description of a stored row: the price analyzer (a route key
\* with two or three amounts), the popularity analyzer, the seasonal
\* analyzer, the Gemini synthesizer or the mock list
Producer(row) ==
    IF Len(row.description) = 4 THEN "price_trends"
    ELSE IF Len(row.description) = 3
    THEN IF row.insight_type = "popular_route" THEN "popular_routes"
         ELSE "seasonal_patterns"
    ELSE IF row.description[1] = "gemini" THEN "gemini"
    ELSE IF row.description[1] = "mock" THEN "mock"
    ELSE "price_trends"

\* C19: two stored Insights that different producers wrote (the price,
\* popularity and seasonal analyzers, the synthesizer, the mock list) have
\* different generator tags.
C19_TagIdentifiesProducer ==
    \A i, j \in 1..Len(insights) :
        Producer(insights[i]) # Producer(insights[j]) =>
            insights[i].generated_by # insights[j].generated_by

----------------------------------------------------------------------------
(***************************************************************************)
(* The insight service when an analyzer may meet an exception: args holds  *)
(* the analyzer that did in the last run.                                  *)
(***************************************************************************)
GenerateInsightsUnder(response, fault, later) ==
    \E g \in {generate_insights_under(flights, now, DateOf(later), insights, response, fault)} :
        /\ later >= now
        /\ now' = later
        /\ insights' = g.store
        /\ genResult' = g.result
        /\ args' = [f |-> "generate_insights", today |-> now, fault |-> fault]
        /\ lastOp' = "insights"
        /\ UNCHANGED <<flights, demand, aggResult, runs, ret>>

FaultNext ==
    \/ \E response \in GeminiResponses, fault \in Analyzers \cup {"none"},
          later \in LaterTimes(now) :
           GenerateInsightsUnder(response, fault, later)
    \/ \E d \in ClockTimes : AdvanceClock(d)

SpecFault == InsightInit /\ [][FaultNext]_vars

\* the candidates of the analyzers other than a, over the tables of the
\* run of the step: the window of the day the run began, the departures up
\* to the day it ended
OtherCandidates(a) ==
    LET list == Guarded(a = "price_trends",
                        analyze_price_trends(RecentFlights(flights, now, 7)))
                    \o Guarded(a = "popular_routes",
                               analyze_popular_routes(RecentFlights(flights, now, 7)))
                    \o Guarded(a = "seasonal_patterns",
                               analyze_seasonal_patterns(flights, DateOf(now')))
    IN  {list[i] : i \in 1..Len(list)}

\* a run in which an analyzer met an exception, over a non-empty window, has
\* stored the candidates of the other analyzers and returned those whose
\* title was new, and has not failed
\* the step is a run that did not fail and returned no mock insight, that
\* has stored the candidates of the analyzers other than a and returned those
\* whose title was new
Delivered(a) ==
    /\ genResult'.ok
    /\ \A i \in 1..Len(genResult'.insights) :
           genResult'.insights[i].generated_by = "AI_Processor"
    /\ \A c \in OtherCandidates(a) :
           /\ \E i \in 1..Len(insights') : insights'[i].title = c.title
           /\ (\A i \in 1..Len(insights) : insights[i].title # c.title) =>
                  \E i \in 1..Len(genResult'.insights) :
                      /\ genResult'.insights[i].title = c.title
                      /\ genResult'.insights[i].description = c.description

FaultIsolated ==
    (/\ lastOp' = "insights"
     /\ args'.f = "generate_insights"
     /\ args'.fault \in Analyzers
     /\ RecentFlights(flights, now, 7) # <<>>) =>
        Delivered(args'.fault)

\* C14: when one of the three rule-based analyzers meets an exception in a
\* run over a non-empty window, the candidates of the other two are still
\* stored (when their titles are new) and returned, and the run does not
\* fail.
C14_AnalyzerFaultIsolated == [][FaultIsolated]_vars

\* the price analyzer met an exception over a table it has a candidate for,
\* and the run returned the insight of the popularity analyzer
C14_Witness ==
    /\ lastOp = "insights"
    /\ args.f = "generate_insights"
    /\ args.fault = "price_trends"
    /\ analyze_price_trends(RecentFlights(flights, args.today, 7)) # <<>>
    /\ \A i \in 1..Len(insights) : insights[i].insight_type # "price_trend"
    /\ \E i \in 1..Len(genResult.insights) : genResult.insights[i].type = "popular_route"

----------------------------------------------------------------------------
(***************************************************************************)
(* The insight service over the answers of SynthResponses: args holds the  *)
(* answer of the last run.                                                 *)
(***************************************************************************)
GenerateInsightsFrom(response, later) ==
    \E g \in {generate_insights(flights, now, DateOf(later), insights, response)} :
        /\ later >= now
        /\ now' = later
        /\ insights' = g.store
        /\ genResult' = g.result
        /\ args' = [f |-> "generate_insights", today |-> now, response |-> response]
        /\ lastOp' = "insights"
        /\ UNCHANGED <<flights, demand, aggResult, runs, ret>>

SynthNext ==
    \/ \E response \in SynthResponses, later \in LaterTimes(now) :
           GenerateInsightsFrom(response, later)
    \/ \E d \in ClockTimes : AdvanceClock(d)

SpecSynth == InsightInit /\ [][SynthNext]_vars

\* the titles of the store
StoredTitles(store) == {store[i].title : i \in 1..Len(store)}

\* the step is a run over a non-empty window with an answer of kind k
SynthRun(k) ==
    /\ lastOp' = "insights"
    /\ args'.f = "generate_insights"
    /\ args'.response.kind \in k
    /\ RecentFlights(flights, now, 7) # <<>>

\* the items of the answer that have a title, a description and a type
WellFormed(response) ==
    /\ response.kind = "list"
    /\ \A i \in 1..Len(response.items) :
           {"title", "description", "type"} \subseteq DOMAIN response.items[i]

\* C15: when the Gemini answer is not JSON, the run over a non-empty window
\* stores nothing but the rule-based candidates, returns those that are new,
\* does not fail and returns no mock insight.
C15_UnparsableAnswerContributesNothing ==
    [][SynthRun({"not_json"}) =>
          /\ Delivered("none")
          /\ StoredTitles(insights') \ StoredTitles(insights)
                 \subseteq {c.title : c \in OtherCandidates("none")}]_vars

\* a run whose answer was not JSON returned a rule-based insight
C15_Witness ==
    /\ lastOp = "insights"
    /\ args.f = "generate_insights"
    /\ args.response.kind = "not_json"
    /\ RecentFlights(flights, args.today, 7) # <<>>
    /\ \E i \in 1..Len(genResult.insights) :
           genResult.insights[i].generated_by = "AI_Processor"

\* C16: when the Gemini answer is JSON but not a list of items that have a
\* title, a description and a type, the run over a non-empty window does not
\* fail, and it stores and returns the rule-based candidates.
C16_MalformedAnswerIsolated ==
    [][(SynthRun({"object", "list"}) /\ ~WellFormed(args'.response)) =>
          Delivered("none")]_vars

\* C17: every stored Insight has a confidence between 0.00 and 1.00 and a
\* type of Insight.INSIGHT_TYPES.
C17_StoredInsightsInRange ==
    \A i \in 1..Len(insights) :
        /\ insights[i].confidence_score \in 0..100
        /\ insights[i].insight_type \in
               {"price_trend", "popular_route", "seasonal_pattern", "demand_forecast"}

----------------------------------------------------------------------------
(***************************************************************************)
(* The insight service over a database that may fail: args holds the       *)
(* get_or_create that failed in the last run and whether the database      *)
(* stayed down.                                                            *)
(***************************************************************************)
MaxFailAt == 2

NoModel == [kind |-> "no_model", items |-> <<>>]

GenerateInsightsFailing(failAt, down, later) ==
    \E g \in {generate_insights_failing(flights, now, DateOf(later), insights, NoModel,
                                         failAt, down)} :
        /\ later >= now
        /\ now' = later
        /\ insights' = g.store
        /\ genResult' = g.result
        /\ args' = [f |-> "generate_insights", today |-> now, failAt |-> failAt,
                    down |-> down]
        /\ lastOp' = "insights"
        /\ UNCHANGED <<flights, demand, aggResult, runs, ret>>

StoreNext ==
    \/ \E failAt \in 0..MaxFailAt, down \in BOOLEAN, later \in LaterTimes(now) :
           GenerateInsightsFailing(failAt, down, later)
    \/ \E d \in ClockTimes : AdvanceClock(d)

SpecStore == InsightInit /\ [][StoreNext]_vars

\* C18: when a get_or_create of the save loop fails in a run over a
\* non-empty window, the run returns an error and no list of insights.
C18_StoreFailureSurfaced ==
    [][(/\ lastOp' = "insights"
        /\ args'.f = "generate_insights"
        /\ RecentFlights(flights, now, 7) # <<>>
        /\ args'.failAt \in 1..Len(Candidates(flights, now, DateOf(now'), NoModel))) =>
           ~genResult'.ok]_vars

----------------------------------------------------------------------------
(***************************************************************************)
(* Two process_flight_data() calls at once, over the same FlightData       *)
(* table.  A run takes one step to read the flights and group them, and    *)
(* two steps per group: the row with the trend that calculate_price_trend  *)
(* reads from the MarketDemand table, then update_or_create.               *)
(***************************************************************************)
MaxConcFlights == 2

\* the FlightData tables of the study, scraped on day 0
ConcFlightLists ==
    UNION {[1..n -> {Flight(c[1], c[2], c[3], 0) : c \in FlightChoices}] :
              n \in 1..MaxConcFlights}

IdleAgg == [pc |-> "idle", keys |-> <<>>, i |-> 0, row |-> <<>>, error |-> FALSE]

AggConcInit ==
    /\ now = 0
    /\ flights \in ConcFlightLists
    /\ demand = <<>>
    /\ aggResult = NoResult
    /\ insights = <<>>
    /\ genResult = NoInsights
    /\ runs = [w \in Workers |-> IdleAgg]
    /\ args = NoArgs
    /\ ret = "none"
    /\ lastOp = "init"

\* process_flight_data up to the loop over the groups
AggBegin(w) ==
    /\ runs[w].pc = "idle"
    /\ runs' = [runs EXCEPT ![w] =
           IF RecentFlights(flights, now, 30) = <<>>
           THEN [IdleAgg EXCEPT !.pc = "done"]
           ELSE [IdleAgg EXCEPT !.pc = "read", !.i = 1,
                                !.keys = GroupKeys(RecentFlights(flights, now, 30))]]
    /\ lastOp' = "begin"
    /\ UNCHANGED <<now, flights, demand, aggResult, insights, genResult, args, ret>>

\* the loop body up to update_or_create: the statistics of group i, and
\* the trend against the rows the table holds now
AggRead(w) ==
    /\ runs[w].pc = "read"
    /\ runs' = [runs EXCEPT ![w].pc = "upsert",
                            ![w].row = GroupRow(demand, runs[w].keys[runs[w].i],
                                           GroupOf(RecentFlights(flights, now, 30),
                                                   runs[w].keys[runs[w].i]))]
    /\ lastOp' = "read"
    /\ UNCHANGED <<now, flights, demand, aggResult, insights, genResult, args, ret>>

\* the run after the update_or_create u of its group i
AfterConcUpsert(r, u) ==
    IF u.raised THEN [r EXCEPT !.pc = "done", !.error = TRUE]
    ELSE IF r.i + 1 > Len(r.keys) THEN [r EXCEPT !.pc = "done", !.i = r.i + 1]
    ELSE [r EXCEPT !.pc = "read", !.i = r.i + 1]

\* update_or_create of the row of group i
AggUpsert(w) ==
    /\ runs[w].pc = "upsert"
    /\ \E u \in {update_or_create(demand, runs[w].row)} :
           /\ demand' = u.store
           /\ runs' = [runs EXCEPT ![w] = AfterConcUpsert(runs[w], u)]
    /\ lastOp' = "upsert"
    /\ UNCHANGED <<now, flights, aggResult, insights, genResult, args, ret>>

AggConcNext ==
    \E w \in Workers : AggBegin(w) \/ AggRead(w) \/ AggUpsert(w)

SpecAggConc == AggConcInit /\ [][AggConcNext]_vars

\* the rows of a table
RowSet(dem) == {dem[i] : i \in 1..Len(dem)}

\* C20: when two concurrent aggregation runs over the same FlightData table
\* have ended, the MarketDemand table has one row per (route, date) and the
\* rows that a single run leaves.
C20_ConcurrentRunsConverge ==
    (\A w \in Workers : runs[w].pc = "done") =>
        /\ UniqueDemandKeys
        /\ RowSet(demand) = RowSet(process_flight_data(flights, now, <<>>).demand)

\* C22: when a run has computed the trend of a group, every group of the run
\* with the same route and an earlier date has been upserted before.
C22_GroupsInDateOrder ==
    \A w \in Workers :
        runs[w].pc = "upsert" =>
            \A j \in 1..Len(runs[w].keys) :
                (/\ runs[w].keys[j][1] = runs[w].keys[runs[w].i][1]
                 /\ runs[w].keys[j][2] < runs[w].keys[runs[w].i][2]) => j < runs[w].i

----------------------------------------------------------------------------
(***************************************************************************)
(* Two generate_insights() calls at once, over one FlightData table, while *)
(* the clock moves.  A call reads the clock and the window and runs the    *)
(* price and popularity analyzers; reads the clock again in                *)
(* analyze_seasonal_patterns; waits in generate_content for the answer of  *)
(* the Gemini model when one is configured; then looks each title up and   *)
(* inserts the row when the lookup finds none.  The lookup and the insert  *)
(* of get_or_create are two statements of the database.                    *)
(***************************************************************************)
\* the time the clock may move to while the calls run: the midnight of day 1
ConcClockTimes == {2}

ConcInit ==
    /\ now = 0
    /\ flights \in InsightFlightSets
    /\ demand = <<>>
    /\ aggResult = NoResult
    /\ insights = <<>>
    /\ genResult = NoInsights
    /\ runs = NoRuns
    /\ args = NoArgs
    /\ ret = "none"
    /\ lastOp = "init"

\* the run of worker w after candidate i is dealt with
Advance(r, saved) ==
    IF r.i + 1 > Len(r.cands)
    THEN [r EXCEPT !.pc = "done", !.i = r.i + 1, !.saved = saved]
    ELSE [r EXCEPT !.pc = "lookup", !.i = r.i + 1, !.saved = saved]

\* generate_insights up to analyze_seasonal_patterns: the window of the
\* clock, and the candidates of the price and popularity analyzers; an empty
\* window goes to the mock insights, called inside the try
Begin(w, configured) ==
    /\ runs[w].pc = "idle"
    /\ runs' = [runs EXCEPT ![w] =
           IF RecentFlights(flights, now, 7) = <<>>
           THEN [pc |-> "lookup", cands |-> MockInsights, i |-> 1, saved |-> <<>>,
                 tag |-> "Mock_AI_Processor", guarded |-> TRUE, model |-> configured]
           ELSE [pc |-> "seasonal",
                 cands |-> analyze_price_trends(RecentFlights(flights, now, 7))
                               \o analyze_popular_routes(RecentFlights(flights, now, 7)),
                 i |-> 1, saved |-> <<>>, tag |-> "AI_Processor", guarded |-> TRUE,
                 model |-> configured]]
    /\ lastOp' = "begin"
    /\ UNCHANGED <<now, flights, demand, aggResult, insights, genResult, args, ret>>

\* analyze_seasonal_patterns reads the clock; then generate_content is
\* called when a model is configured, else the save loop begins
Seasonal(w) ==
    /\ runs[w].pc = "seasonal"
    /\ runs' = [runs EXCEPT ![w] =
           [runs[w] EXCEPT
               !.pc = IF runs[w].model THEN "waiting" ELSE "lookup",
               !.cands = runs[w].cands
                             \o analyze_seasonal_patterns(flights, DateOf(now))]]
    /\ lastOp' = "seasonal"
    /\ UNCHANGED <<now, flights, demand, aggResult, insights, genResult, args, ret>>

\* self.model.generate_content(prompt) returns; the save loop begins
Answer(w, response) ==
    /\ runs[w].pc = "waiting"
    /\ response.kind # "no_model"
    /\ runs' = [runs EXCEPT ![w] =
           [runs[w] EXCEPT
               !.pc = "lookup",
               !.cands = runs[w].cands \o generate_gemini_insights(response)]]
    /\ lastOp' = "answer"
    /\ UNCHANGED <<now, flights, demand, aggResult, insights, genResult, args, ret>>

\* the get of get_or_create; an exception inside the try of generate_insights
\* (in the save loop, or in the mock insights of an empty window) goes to
\* the mock insights of the except clause, an exception there leaves the call
Lookup(w) ==
    LET r == runs[w]
        c == r.cands[r.i]
    IN  /\ r.pc = "lookup"
        /\ runs' = [runs EXCEPT ![w] =
               IF LookupRaises(insights, c)
               THEN IF r.guarded
                    THEN [pc |-> "lookup", cands |-> MockInsights, i |-> 1,
                          saved |-> <<>>, tag |-> "Mock_AI_Processor",
                          guarded |-> FALSE, model |-> r.model]
                    ELSE [r EXCEPT !.pc = "failed"]
               ELSE IF TitleRows(insights, c.title) = {}
               THEN [r EXCEPT !.pc = "insert"]
               ELSE Advance(r, r.saved)]
        /\ lastOp' = "lookup"
        /\ UNCHANGED <<now, flights, demand, aggResult, insights, genResult, args, ret>>

\* the create of get_or_create: Insight has no unique column, the insert
\* always succeeds
Insert(w) ==
    LET r == runs[w]
        store == Append(insights, InsightRow(r.cands[r.i], r.tag))
    IN  /\ r.pc = "insert"
        /\ insights' = store
        /\ runs' = [runs EXCEPT ![w] =
               Advance(r, Append(r.saved, Serialized(store, Len(store))))]
        /\ lastOp' = "insert"
        /\ UNCHANGED <<now, flights, demand, aggResult, genResult, args, ret>>

ConcNext ==
    \/ \E w \in Workers :
           \/ \E configured \in BOOLEAN : Begin(w, configured)
           \/ Seasonal(w)
           \/ \E response \in GeminiResponses : Answer(w, response)
           \/ Lookup(w)
           \/ Insert(w)
    \/ \E d \in ConcClockTimes : AdvanceClock(d)

SpecConc == ConcInit /\ [][ConcNext]_vars

\* C3: when two concurrent runs have ended, whatever the interleaving of
\* their lookups and inserts, the Insight table holds one row per title.
C3_ConcurrentTitlesUnique ==
    (\A w \in Workers : runs[w].pc \in {"done", "failed"}) => NoDuplicateTitles

----------------------------------------------------------------------------
(***************************************************************************)
(* analyze_price_trends, applied to drawn observations of one route        *)
(***************************************************************************)
FlightsOfPrices(ps) == [i \in 1..Len(ps) |-> Flight(1, 0, ps[i], 0)]

VolatilityInit ==
    /\ now = 0
    /\ args \in [f : {"analyze_price_trends"}, prices : VolPriceLists]
    /\ flights = FlightsOfPrices(args.prices)
    /\ demand = <<>>
    /\ aggResult = NoResult
    /\ insights = <<>>
    /\ genResult = NoInsights
    /\ runs = NoRuns
    /\ ret = <<>>
    /\ lastOp = "init"

CallAnalyzePriceTrends ==
    /\ args.f = "analyze_price_trends"
    /\ lastOp = "init"
    /\ ret' = analyze_price_trends(flights)
    /\ lastOp' = "call"
    /\ UNCHANGED <<now, flights, demand, aggResult, insightVars, args>>

SpecVolatility == VolatilityInit /\ [][CallAnalyzePriceTrends]_vars

\* (max - min) / mean > 0.5, and mean < 200, for prices in cents
ExactVolatile(ps) == 2 * Len(ps) * (MaxOf(ps) - MinOf(ps)) > CentsSum(ps)

ExactBudget(ps) == CentsSum(ps) < 20000 * Len(ps)

\* C9: a route with fewer than 3 observations gets no candidate; otherwise it
\* gets the High Price Volatility candidate (confidence 0.85) exactly when
\* (max - min) / mean > 0.5, else the Budget-Friendly candidate (confidence
\* 0.9) exactly when mean < 200, else none; never both.
C9_VolatilityRule ==
    (args.f = "analyze_price_trends" /\ lastOp = "call") =>
        LET ps == args.prices
        IN  IF Len(ps) < 3 THEN ret = <<>>
            ELSE IF ExactVolatile(ps)
            THEN /\ Len(ret) = 1
                 /\ ret[1].title = "High Price Volatility on SYD-MEL Route"
                 /\ ret[1].confidence = 85
            ELSE IF ExactBudget(ps)
            THEN /\ Len(ret) = 1
                 /\ ret[1].title = "Budget-Friendly Route: SYD-MEL"
                 /\ ret[1].confidence = 90
            ELSE ret = <<>>

----------------------------------------------------------------------------
(***************************************************************************)
(* analyze_popular_routes, applied to drawn observations                   *)
(***************************************************************************)
FlightsOfRoutes(rs) == [i \in 1..Len(rs) |-> Flight(rs[i], 0, 20000, 0)]

PopularInit ==
    /\ now = 0
    /\ args \in [f : {"analyze_popular_routes"}, routes : PopRouteLists]
    /\ flights = FlightsOfRoutes(args.routes)
    /\ demand = <<>>
    /\ aggResult = NoResult
    /\ insights = <<>>
    /\ genResult = NoInsights
    /\ runs = NoRuns
    /\ ret = <<>>
    /\ lastOp = "init"

CallAnalyzePopularRoutes ==
    /\ args.f = "analyze_popular_routes"
    /\ lastOp = "init"
    /\ ret' = analyze_popular_routes(flights)
    /\ lastOp' = "call"
    /\ UNCHANGED <<now, flights, demand, aggResult, insightVars, args>>

SpecPopular == PopularInit /\ [][CallAnalyzePopularRoutes]_vars

\* the routes of the observations rs, a route being a row of the Route table,
\* by decreasing number of observations, the route met first before the
\* others of the same number
RankedRoutes(rs) ==
    LET ids == FirstSeen(rs)
        count(a) == Cardinality({i \in 1..Len(rs) : rs[i] = ids[a]})
        before(a, b) == count(a) > count(b) \/ (count(a) = count(b) /\ a < b)
        rank(a) == 1 + Cardinality({b \in 1..Len(ids) : before(b, a)})
    IN  [k \in 1..Len(ids) |->
            LET a == CHOOSE x \in 1..Len(ids) : rank(x) = k
            IN  [route |-> ids[a], count |-> count(a)]]

\* C10: the popularity analyzer emits min(3, number of routes) candidates,
\* the k-th one naming the route with the k-th highest number of
\* observations and embedding that number; among routes of equal numbers the
\* one met first ranks better.
C10_PopularityRanking ==
    (args.f = "analyze_popular_routes" /\ lastOp = "call") =>
        LET ranked == RankedRoutes(args.routes)
        IN  /\ Len(ret) = Min2(3, Len(ranked))
            /\ \A k \in 1..Len(ret) :
                   /\ ret[k].title =
                          "Popular Route #" \o RankText[k] \o ": " \o CityKey(ranked[k].route)
                   /\ ret[k].description[3] = ranked[k].count

\* C24: the number that a candidate of the popularity analyzer embeds is the
\* number of observations of one route, a row of the Route table (origin,
\* destination, airline): routes that differ in airline are not pooled.
C24_GroupsByRouteIdentity ==
    (args.f = "analyze_popular_routes" /\ lastOp = "call") =>
        \A k \in 1..Len(ret) :
            \E r \in 1..Len(RouteTable) :
                /\ ret[k].description[1] = CityKey(r)
                /\ ret[k].description[3] =
                       Cardinality({i \in 1..Len(args.routes) : args.routes[i] = r})

----------------------------------------------------------------------------
(***************************************************************************)
(* analyze_seasonal_patterns, applied on a Sunday (day 2) to flights that  *)
(* departed on the Friday (day 0) and the Saturday (day 1) before          *)
(***************************************************************************)
SeasonalStudyFlights(weekend, weekday) ==
    [i \in 1..Len(weekday) |-> Flight(1, 0, weekday[i], 0)]
        \o [i \in 1..Len(weekend) |-> Flight(1, 1, weekend[i], 0)]

SeasonalInit ==
    /\ now = 4
    /\ args \in [f : {"analyze_seasonal_patterns"}, weekend : WeekendStudyLists,
                 weekday : WeekdayStudyLists]
    /\ flights = SeasonalStudyFlights(args.weekend, args.weekday)
    /\ demand = <<>>
    /\ aggResult = NoResult
    /\ insights = <<>>
    /\ genResult = NoInsights
    /\ runs = NoRuns
    /\ ret = <<>>
    /\ lastOp = "init"

CallAnalyzeSeasonalPatterns ==
    /\ args.f = "analyze_seasonal_patterns"
    /\ lastOp = "init"
    /\ ret' = analyze_seasonal_patterns(flights, DateOf(now))
    /\ lastOp' = "call"
    /\ UNCHANGED <<now, flights, demand, aggResult, insightVars, args>>

SpecSeasonal == SeasonalInit /\ [][CallAnalyzeSeasonalPatterns]_vars

\* weekend mean > 1.1 x weekday mean, for two non-empty lists of cents
ExactPremium(weekend, weekday) ==
    10 * CentsSum(weekend) * Len(weekday) > 11 * CentsSum(weekday) * Len(weekend)

\* C11: the seasonal analyzer emits one Weekend Premium Pricing candidate
\* when the weekend and the weekday buckets are both non-empty and the
\* weekend mean is above 1.1 times the weekday mean, and nothing otherwise:
\* nothing when the weekend mean is exactly 10% above the weekday mean.
C11_SeasonalRule ==
    (args.f = "analyze_seasonal_patterns" /\ lastOp = "call") =>
        IF /\ args.weekend # <<>>
           /\ args.weekday # <<>>
           /\ ExactPremium(args.weekend, args.weekday)
        THEN /\ Len(ret) = 1
             /\ ret[1].title = "Weekend Premium Pricing Pattern"
        ELSE ret = <<>>

----------------------------------------------------------------------------
(***************************************************************************)
(* generate_insights() step by step around the call of the Gemini model:   *)
(* the analyzers run, generate_content is called and the run waits for the *)
(* answer, then the save loop runs.  The answer is the model's to give.    *)
(***************************************************************************)
IdleCall == [pc |-> "idle", cands |-> <<>>, mock |-> FALSE]

GeminiInit ==
    /\ now = 0
    /\ flights \in InsightFlightSets
    /\ demand = <<>>
    /\ aggResult = NoResult
    /\ insights = <<>>
    /\ genResult = NoInsights
    /\ runs = IdleCall
    /\ args = NoArgs
    /\ ret = "none"
    /\ lastOp = "init"

\* generate_insights up to generate_content: the mock insights over an empty
\* window, else the candidates of the analyzers, the clock read again at the
\* time later in analyze_seasonal_patterns
CallBegin(configured, later) ==
    /\ runs.pc = "idle"
    /\ later >= now
    /\ now' = later
    /\ runs' = IF RecentFlights(flights, now, 7) = <<>>
               THEN [pc |-> "saving", cands |-> <<>>, mock |-> TRUE]
               ELSE [pc |-> IF configured THEN "waiting" ELSE "saving",
                     cands |-> Candidates(flights, now, DateOf(later), NoModel),
                     mock |-> FALSE]
    /\ lastOp' = "begin"
    /\ UNCHANGED <<flights, demand, aggResult, insights, genResult, args, ret>>

\* self.model.generate_content(prompt) returns
GeminiAnswers(response) ==
    /\ runs.pc = "waiting"
    /\ response.kind # "no_model"
    /\ runs' = [pc |-> "saving",
                cands |-> runs.cands \o generate_gemini_insights(response),
                mock |-> FALSE]
    /\ lastOp' = "answer"
    /\ UNCHANGED <<now, flights, demand, aggResult, insights, genResult, args, ret>>

\* the save loop and the return
CallSave ==
    /\ runs.pc = "saving"
    /\ \E g \in {IF runs.mock
                 THEN MockOrMock(generate_mock_insights(insights))
                 ELSE SavedOrMock(SaveFrom(insights, runs.cands, 1, "AI_Processor", <<>>))} :
           /\ insights' = g.store
           /\ genResult' = g.result
    /\ runs' = [pc |-> "done", cands |-> <<>>, mock |-> FALSE]
    /\ lastOp' = "insights"
    /\ UNCHANGED <<now, flights, demand, aggResult, args, ret>>

\* the caller takes the result; the next call may begin
CallReturn ==
    /\ runs.pc = "done"
    /\ runs' = IdleCall
    /\ lastOp' = "return"
    /\ UNCHANGED <<now, flights, demand, aggResult, insights, genResult, args, ret>>

GeminiNext ==
    \/ \E configured \in BOOLEAN, later \in LaterTimes(now) :
           CallBegin(configured, later)
    \/ \E response \in GeminiResponses : GeminiAnswers(response)
    \/ CallSave
    \/ CallReturn
    \/ \E d \in ClockTimes : AdvanceClock(d)

\* the steps of the run are taken; nothing makes the model answer
SpecGemini == GeminiInit /\ [][GeminiNext]_vars /\ WF_vars(CallSave)

\* C21: a run that has called the Gemini model ends, whether or not the model
\* answers.
C21_RunTerminates == (runs.pc = "waiting") ~> (runs.pc = "done")

----------------------------------------------------------------------------
(***************************************************************************)
(* calculate_price_trend for a group of route 1 that departs today, over   *)
(* a MarketDemand table with records of route 1 before, at and after the   *)
(* 7-day span, and a record of route 2                                     *)
(***************************************************************************)
\* the (route, date - today) keys the table may hold, in table order
PriorKeys == << <<1, -8>>, <<1, -7>>, <<2, -1>>, <<1, -1>>, <<1, 0>>, <<1, 1>> >>

\* the stored average of a key, in cents; 0: the table has no record of it
PriorAverages == {0, 10000, 20000}

PriorNews == {11001, 20000}

StoredRow(r, d, avg) ==
    [route |-> r, date |-> d, search_volume |-> 1, average_price |-> avg,
     price_trend |-> "stable", demand_level |-> "low"]

\* the table with the record of key k when avgs[k] is an average
PriorTable(today, avgs) ==
    LET held == SelectSeq([k \in 1..Len(PriorKeys) |-> k], LAMBDA k : avgs[k] # 0)
    IN  [i \in 1..Len(held) |->
            StoredRow(PriorKeys[held[i]][1], today + PriorKeys[held[i]][2], avgs[held[i]])]

PriorInit ==
    /\ now = 20
    /\ flights = <<>>
    /\ args \in [f : {"calculate_price_trend"}, new : PriorNews]
    /\ demand \in {PriorTable(DateOf(20), avgs) : avgs \in [1..Len(PriorKeys) -> PriorAverages]}
    /\ aggResult = NoResult
    /\ insights = <<>>
    /\ genResult = NoInsights
    /\ runs = NoRuns
    /\ ret = "none"
    /\ lastOp = "init"

\* the call the aggregation makes for a group of one observation of route 1
\* that departs today
CallPriceTrendToday ==
    /\ args.f = "calculate_price_trend"
    /\ lastOp = "init"
    /\ ret' = calculate_price_trend(demand, 1, DateOf(now), AvgPriceOf[<<args.new>>])
    /\ lastOp' = "call"
    /\ UNCHANGED <<now, flights, demand, aggResult, insightVars, args>>

SpecPrior == PriorInit /\ [][CallPriceTrendToday]_vars

\* the records of route 1 dated from 7 days to 1 day before today
PriorRecords ==
    {i \in 1..Len(demand) :
        demand[i].route = 1 /\ demand[i].date \in (DateOf(now) - 7)..(DateOf(now) - 1)}

\* C23: the trend of the group (route 1, today) is the class of the change
\* against the record of route 1 with the greatest date from 7 days to 1 day
\* before today, and stable when there is none; no other record counts.
C23_TrendAgainstMostRecentPrior ==
    (args.f = "calculate_price_trend" /\ lastOp = "call") =>
        IF PriorRecords = {} THEN ret = "stable"
        ELSE \E i \in PriorRecords :
                /\ \A j \in PriorRecords : demand[j].date <= demand[i].date
                /\ ret = ExactTrend(args.new, demand[i].average_price)

\* the call found records of yesterday and of 7 days ago, and records of
\* today, of tomorrow, of 8 days ago and of route 2 that give another trend
C23_Witness ==
    /\ args.f = "calculate_price_trend"
    /\ lastOp = "call"
    /\ args.new = 20000
    /\ ret = "increasing"
    /\ demand = PriorTable(DateOf(now), <<20000, 20000, 20000, 10000, 20000, 20000>>)

----------------------------------------------------------------------------
(***************************************************************************)
(* The insight service over tables on which analyze_price_trends meets a   *)
(* ZeroDivisionError: a route whose mean price is 0                        *)
(***************************************************************************)
ZeroInit ==
    /\ now = 0
    /\ flights \in ZeroFlightSets
    /\ demand = <<>>
    /\ aggResult = NoResult
    /\ insights = <<>>
    /\ genResult = NoInsights
    /\ runs = NoRuns
    /\ args = NoArgs
    /\ ret = "none"
    /\ lastOp = "init"

SpecZero == ZeroInit /\ [][InsightNext]_vars

\* the window has a route of three observations or more, all of price 0
PriceAnalyzerFaults ==
    \E r \in 1..Len(RouteTable) :
        LET ps == RoutePrices(RecentFlights(flights, now, 7), IataKey(r))
        IN  Len(ps) >= 3 /\ \A i \in 1..Len(ps) : ps[i] = 0

\* C25: a run in which the price analyzer meets the exception stores no
\* candidate of the price analyzer, those built before the exception
\* included.
C25_FaultedAnalyzerContributesNothing ==
    [][(lastOp' = "insights" /\ PriceAnalyzerFaults) =>
          \A i \in (Len(insights) + 1)..Len(insights') :
              Producer(insights'[i]) # "price_trends"]_vars

----------------------------------------------------------------------------
(***************************************************************************)
(* The order of the candidates of a run                                    *)
(***************************************************************************)
\* the place of a producer in the order of a run
ProducerRank(p) ==
    CASE p = "price_trends" -> 1
      [] p = "popular_routes" -> 2
      [] p = "seasonal_patterns" -> 3
      [] p = "gemini" -> 4
      [] OTHER -> 5

\* the rows of the step are in the order price, popularity, seasonal,
\* synthesizer, and a new title that a rule-based candidate of the run has is
\* stored with what the analyzer wrote
PersistedInOrder ==
    /\ \A i, j \in (Len(insights) + 1)..Len(insights') :
           i < j => ProducerRank(Producer(insights'[i])) <= ProducerRank(Producer(insights'[j]))
    /\ \A c \in OtherCandidates("none") :
           \A i \in (Len(insights) + 1)..Len(insights') :
               insights'[i].title = c.title => Producer(insights'[i]) # "gemini"

\* C26: a run over a non-empty window stores its candidates in the order
\* price analyzer, popularity analyzer, seasonal analyzer, synthesizer; of two
\* candidates of the run with the same new title the one of the earlier
\* producer is stored.
C26_CandidateOrder ==
    [][(lastOp' = "insights" /\ RecentFlights(flights, now, 7) # <<>>) =>
          PersistedInOrder]_vars

\* a run returned the budget insight of the price analyzer and a later
\* insight of the Gemini answer that also had an item of the budget title
C26_Witness ==
    /\ lastOp = "insights"
    /\ \E i, j \in 1..Len(genResult.insights) :
           /\ i < j
           /\ genResult.insights[i].title = "Budget-Friendly Route: BNE-PER"
           /\ genResult.insights[i].description[1] = "BNE-PER"
           /\ genResult.insights[j].title = "Weekend Premium Pricing Detected"
           /\ genResult.insights[j].generated_by = "AI_Processor"

----------------------------------------------------------------------------
(***************************************************************************)
(* What a run returns against what it stores                               *)
(***************************************************************************)
\* the step leaves the stored rows as they are and returns, in order, the
\* rows it adds
ReturnsCreated ==
    /\ Len(insights') >= Len(insights)
    /\ \A i \in 1..Len(insights) : insights'[i] = insights[i]
    /\ Len(genResult'.insights) = Len(insights') - Len(insights)
    /\ \A k \in 1..Len(genResult'.insights) :
           genResult'.insights[k] = Serialized(insights', Len(insights) + k)

\* C27: the list a run returns is the list of the Insight records the run
\* has created, in order; the records stored before stay as they are.
C27_ReturnsNewlyCreated == [][lastOp' = "insights" => ReturnsCreated]_vars

----------------------------------------------------------------------------
(***************************************************************************)
(* AmadeusClient: the cached OAuth2 token.  now is datetime.now() in       *)
(* seconds, runs is the client (api_key, api_secret, access_token,         *)
(* token_expires_at), ret is what make_api_request did.  The token server  *)
(* numbers its tokens.                                                     *)
(***************************************************************************)
MaxTokens == 3

\* self.access_token = None
NoToken == 0

\* timedelta(seconds=expires_in - 60)
TokenMargin == 60

\* token_data.get('expires_in', 1799)
DefaultExpiresIn == 1799

\* the answers of the token endpoint: an error, a token without expires_in,
\* a token with expires_in
TokenAnswers ==
    { [kind |-> "error"], [kind |-> "token"] }
        \cup {[kind |-> "token", expires_in |-> e] : e \in {60, 61, 62}}

\* the times of the calls
AmadeusTimes == {1, 2, 3, 1738, 1739, 1740}

\* the seconds that requests.post may take to return
PostDelays == {0, 1, 2}

\* the values of settings.AMADEUS_API_KEY and settings.AMADEUS_API_SECRET: a
\* setting is the set of its value, {} when it is absent (getattr gives None)
ApiKeySettings == {{}, {""}, {"key"}}

ApiSecretSettings == {{}, {""}, {"secret"}}

\* AmadeusClient(): the credentials of the settings and no token
NewClient(api_key, api_secret) ==
    [api_key |-> api_key, api_secret |-> api_secret,
     access_token |-> NoToken, token_expires_at |-> 0, issued |-> 0]

\* a client that asks for a token at every call
get_access_token_always(client, clock, answer, answered_at) ==
    IF client.api_key \in {{}, {""}} \/ client.api_secret \in {{}, {""}}
    THEN [client |-> client, raised |-> TRUE, token |-> NoToken, requests |-> 0]
    ELSE IF answer.kind = "error"
    THEN [client |-> client, raised |-> TRUE, token |-> NoToken, requests |-> 1]
    ELSE [client |-> [client EXCEPT
                      !.access_token = client.issued + 1,
                      !.token_expires_at =
                          answered_at + (IF "expires_in" \in DOMAIN answer
                                   THEN answer.expires_in ELSE DefaultExpiresIn)
                                - TokenMargin,
                      !.issued = client.issued + 1],
          raised |-> FALSE, token |-> client.issued + 1, requests |-> 1]

\* get_access_token: clock is datetime.now() of the check of the cached
\* token, answer is what the token endpoint answers if asked, and answered_at
\* is datetime.now() once requests.post has returned, from which the expiry
\* is counted.  A client whose api_key or api_secret is None or '' raises
\* before the check of the cached token and before any request
get_access_token(client, clock, answer, answered_at) ==
    IF client.api_key \in {{}, {""}} \/ client.api_secret \in {{}, {""}}
    THEN [client |-> client, raised |-> TRUE, token |-> NoToken, requests |-> 0]
    ELSE IF client.access_token # NoToken /\ client.token_expires_at > clock
    THEN [client |-> client, raised |-> FALSE, token |-> client.access_token,
          requests |-> 0]
    ELSE IF answer.kind = "error"
    THEN [client |-> client, raised |-> TRUE, token |-> NoToken, requests |-> 1]
    ELSE [client |-> [client EXCEPT
                      !.access_token = client.issued + 1,
                      !.token_expires_at =
                          answered_at + (IF "expires_in" \in DOMAIN answer
                                   THEN answer.expires_in ELSE DefaultExpiresIn)
                                - TokenMargin,
                      !.issued = client.issued + 1],
          raised |-> FALSE, token |-> client.issued + 1, requests |-> 1]

AmadeusInit ==
    /\ now = 0
    /\ flights = <<>>
    /\ demand = <<>>
    /\ aggResult = NoResult
    /\ insights = <<>>
    /\ genResult = NoInsights
    /\ runs \in {NewClient(api_key, api_secret) :
                    api_key \in ApiKeySettings, api_secret \in ApiSecretSettings}
    /\ args = NoArgs
    /\ ret = "none"
    /\ lastOp = "init"

\* make_api_request: the token of get_access_token goes into the
\* Authorization header of the GET; a token request takes delay seconds
MakeApiRequest(answer, delay) ==
    /\ runs.issued < MaxTokens
    /\ \E t \in {get_access_token(runs, now, answer, now + delay)} :
           /\ runs' = t.client
           /\ now' = (IF t.requests = 1 THEN now + delay ELSE now)
           /\ ret' = [sent |-> ~t.raised, bearer |-> t.token,
                      token_requests |-> t.requests]
    /\ args' = [f |-> "make_api_request", answer |-> answer, delay |-> delay]
    /\ lastOp' = "request"
    /\ UNCHANGED <<flights, demand, aggResult, insights, genResult>>

\* time passes between two calls
ClientClock(d) ==
    /\ d > now
    /\ now' = d
    /\ lastOp' = "clock"
    /\ UNCHANGED <<flights, demand, aggResult, insights, genResult, runs, args, ret>>

AmadeusNext ==
    \/ \E answer \in TokenAnswers,
          delay \in {d \in PostDelays : d = 0 \/ now + d \in AmadeusTimes} :
           MakeApiRequest(answer, delay)
    \/ \E d \in AmadeusTimes : ClientClock(d)

SpecAmadeus == AmadeusInit /\ [][AmadeusNext]_vars

\* the client has no token, or the time has reached the expiry of its token
RefreshNeeded == runs.access_token = NoToken \/ now >= runs.token_expires_at

\* what the claim says of a request: a new token is asked for exactly when
\* RefreshNeeded, its expiry is the time of issue (the client's clock once
\* the token endpoint has answered) plus expires_in minus 60 seconds;
\* otherwise the cached token is used and kept and no time passes in a token
\* request; the request carries that token
RefreshedWhenNeeded ==
    /\ ret'.token_requests = (IF RefreshNeeded THEN 1 ELSE 0)
    /\ ~RefreshNeeded =>
           (runs' = runs /\ now' = now /\ ret'.sent /\ ret'.bearer = runs.access_token)
    /\ (RefreshNeeded /\ args'.answer.kind = "error") => (~ret'.sent /\ runs' = runs)
    /\ (RefreshNeeded /\ args'.answer.kind = "token") =>
           /\ ret'.sent
           /\ runs'.access_token # runs.access_token
           /\ ret'.bearer = runs'.access_token
           /\ runs'.token_expires_at =
                  now' + (IF "expires_in" \in DOMAIN args'.answer
                         THEN args'.answer.expires_in ELSE 1799) - 60

\* the settings give the client a non-empty key and a non-empty secret
CredentialsConfigured ==
    /\ runs.api_key \notin {{}, {""}}
    /\ runs.api_secret \notin {{}, {""}}

\* C30 as stated: an API request asks for a new token exactly when the client
\* has no token or the cached one has reached its expiry at the time of the
\* check, whatever the client's credentials are; otherwise the cached token
\* is used; the request carries that token.
C30_TokenRefreshedWhenNeeded == [][lastOp' = "request" => RefreshedWhenNeeded]_vars

\* C30: an API request of a client with configured credentials asks for a new
\* token exactly when the client has no token or the cached one has reached
\* its expiry at the time of the check, the expiry of a new token being the
\* time of issue plus expires_in minus 60 seconds, and otherwise uses the
\* cached token without a token request; the request carries that token.  A
\* client without a key or a secret asks for no token, sends no request and
\* keeps its state.
C30_ConfiguredClientRefreshesWhenNeeded ==
    [][lastOp' = "request" =>
          IF CredentialsConfigured
          THEN RefreshedWhenNeeded
          ELSE /\ ret'.token_requests = 0
               /\ ~ret'.sent
               /\ runs' = runs
               /\ now' = now]_vars

\* after the first token the client has asked for a second one, and a
\* request has used the second token from the cache one second before its
\* expiry
C30_Witness ==
    /\ lastOp = "request"
    /\ CredentialsConfigured
    /\ ret.sent
    /\ ret.token_requests = 0
    /\ ret.bearer = 2
    /\ runs.token_expires_at - now = 1

====
